---- MODULE Spec2Model ----
(***************************************************************************)
(* A model of presenterm's presentation builder (src/builder.rs) and of    *)
(* the terminal drawer (src/render/draw.rs).                               *)
(*                                                                         *)
(* Strings are sequences of characters; a character is a one-token string. *)
(* Characters outside ASCII are written by code point: "U82F9" and "U679C" *)
(* are the double-width CJK characters of the unit test, "U2502", "U253C", *)
(* "U2500" the box-drawing glyphs of tables, "U2022", "U25E6", "U25AA" the *)
(* list bullets and "U2588" the progress-bar block.  "ESC" stands for the  *)
(* styling artifacts a highlighter injects.  Option<T> is a sequence of    *)
(* length at most one.                                                     *)
(***************************************************************************)
EXTENDS Integers, Sequences, FiniteSets

VARIABLES
    elements,                   \* build's argument: Vec<MarkdownElement>
    default_theme,              \* PresentationBuilder::new's default_theme
    pc,                         \* position of build: start, loop, end, done
    idx,                        \* number of elements the for loop consumed
    slide_operations,           \* PresentationBuilder.slide_operations
    slides,                     \* PresentationBuilder.slides
    theme,                      \* PresentationBuilder.theme
    ignore_element_line_break,  \* PresentationBuilder.ignore_element_line_break
    last_element_is_list,       \* PresentationBuilder.last_element_is_list
    footer_context,             \* PresentationBuilder.footer_context (an Rc: a heap reference)
    contexts,                   \* the heap of FooterContext cells, indexed by reference
    result,                     \* build's return value
    session,                    \* position of the render session that owns the Drawer
    drawer,                     \* the Drawer value: none, live or dropped
    raw_mode,                   \* the terminal: raw mode is enabled
    cursor_hidden,              \* the terminal: the cursor is hidden
    handle,                     \* Drawer.handle: the commands queued and not yet flushed
    frame,                      \* the terminal: the commands of the last flush
    window_dimensions,          \* the dimensions window_size reported last
    slide_dimensions,           \* the dimensions the last RenderOperator was made with
    overflow_checks             \* the build profile: integer overflow panics (else it wraps)

builder_vars == <<elements, default_theme, pc, idx, slide_operations, slides, theme,
                  ignore_element_line_break, last_element_is_list, footer_context, contexts>>

drawer_vars == <<session, drawer, raw_mode, cursor_hidden, handle, frame, window_dimensions,
                 slide_dimensions, overflow_checks>>

vars == <<builder_vars, result, drawer_vars>>

---------------------------------------------------------------------------
(* Bounds of the model *)

MaxElems == 3

MaxTextLen == 3

\* The most columns and data rows of a table.
MaxTableColumns == 2

MaxTableRows == 1

\* The most characters of a line of a block quote or a code block.
MaxLineLen == 2

\* The most slides and window columns of a presentation with a progress bar.
MaxSlides == 14

MaxBarColumns == 42

---------------------------------------------------------------------------
(* Option and sequence helpers *)

None == <<>>

Some(x) == <<x>>

is_some(o) == o # <<>>

unwrap_or(o, d) == IF o = <<>> THEN d ELSE o[1]

RECURSIVE Repeat(_, _)
Repeat(s, n) == IF n <= 0 THEN <<>> ELSE s \o Repeat(s, n - 1)

RECURSIVE Concat(_)
Concat(ss) == IF ss = <<>> THEN <<>> ELSE Head(ss) \o Concat(Tail(ss))

RECURSIVE SumSeq(_)
SumSeq(ns) == IF ns = <<>> THEN 0 ELSE Head(ns) + SumSeq(Tail(ns))

RECURSIVE MaxSeq(_)
MaxSeq(ns) ==
    IF ns = <<>> THEN 0
    ELSE LET m == MaxSeq(Tail(ns)) IN IF Head(ns) > m THEN Head(ns) ELSE m

\* The number of operations of the named kind.
Count(ops, name) == Cardinality({i \in 1..Len(ops) : ops[i].op = name})

IsPrefix(s, t) == Len(s) <= Len(t) /\ SubSeq(t, 1, Len(s)) = s

---------------------------------------------------------------------------
(* Display width: unicode_width::UnicodeWidthStr::width *)

WideChars == {"U82F9", "U679C"}

ZeroWidthChars == {"\n", "ESC"}

char_width(c) == IF c \in WideChars THEN 2 ELSE IF c \in ZeroWidthChars THEN 0 ELSE 1

width(s) == SumSeq([i \in 1..Len(s) |-> char_width(s[i])])

WhitespaceChars == {" ", "\n"}

RECURSIVE trim_end(_)
trim_end(s) ==
    IF s # <<>> /\ s[Len(s)] \in WhitespaceChars THEN trim_end(SubSeq(s, 1, Len(s) - 1)) ELSE s

\* str::lines: split at "\n"; the line ending is not part of a line and a
\* final empty line is not produced.
RECURSIVE lines_from(_, _)
lines_from(s, cur) ==
    IF s = <<>> THEN (IF cur = <<>> THEN <<>> ELSE <<cur>>)
    ELSE IF Head(s) = "\n" THEN <<cur>> \o lines_from(Tail(s), <<>>)
    ELSE lines_from(Tail(s), Append(cur, Head(s)))

lines(s) == lines_from(s, <<>>)

\* syntect's LinesWithEndings, which the highlighter iterates: as lines, but
\* every line keeps its ending.
RECURSIVE lines_with_endings_from(_, _)
lines_with_endings_from(s, cur) ==
    IF s = <<>> THEN (IF cur = <<>> THEN <<>> ELSE <<cur>>)
    ELSE IF Head(s) = "\n" THEN <<Append(cur, "\n")>> \o lines_with_endings_from(Tail(s), <<>>)
    ELSE lines_with_endings_from(Tail(s), Append(cur, Head(s)))

\* usize::to_string: the decimal digits.
Digits == <<"0", "1", "2", "3", "4", "5", "6", "7", "8", "9">>

RECURSIVE to_string(_)
to_string(n) == IF n < 10 THEN <<Digits[n + 1]>> ELSE Append(to_string(n \div 10), Digits[(n % 10) + 1])

---------------------------------------------------------------------------
(* Themes: theme::PresentationTheme, consumed read-only.  A theme is a     *)
(* record of the fields the builder reads; colors are named after the      *)
(* theme and the style they belong to.                                     *)

ElementTypes ==
    {"SlideTitle", "Heading1", "Heading2", "Heading3", "Heading4", "Heading5", "Heading6",
     "Paragraph", "List", "Code", "PresentationTitle", "PresentationSubTitle",
     "PresentationAuthor", "Table", "BlockQuote"}

Left(m) == [kind |-> "Left", margin |-> m]

Right(m) == [kind |-> "Right", margin |-> m]

Center(size, m) == [kind |-> "Center", minimum_size |-> size, minimum_margin |-> m]

FooterEmpty == [kind |-> "Empty"]

FooterTemplate(l, r, c) == [kind |-> "Template", left |-> l, right |-> r, colors |-> c]

FooterProgressBar(ch, c) == [kind |-> "ProgressBar", character |-> ch, colors |-> c]

DarkTheme ==
    [ default_style_colors |-> "dark.default",
      block_quote_prefix |-> None,
      block_quote_colors |-> "dark.block_quote",
      code_padding_horizontal |-> None,
      code_padding_vertical |-> None,
      code_colors |-> "dark.code",
      slide_title_padding_top |-> None,
      slide_title_padding_bottom |-> None,
      slide_title_separator |-> FALSE,
      slide_title_colors |-> "dark.slide_title",
      headings |-> [l \in 1..6 |-> [prefix |-> None, colors |-> "dark.heading"]],
      intro_title_colors |-> "dark.intro_title",
      intro_subtitle_colors |-> "dark.intro_subtitle",
      intro_author_colors |-> "dark.intro_author",
      intro_author_positioning |-> "BelowTitle",
      footer |-> FooterTemplate(Some(<<"{author}">>),
                                Some(<<"{current_slide}", " ", "/", " ", "{total_slides}">>),
                                "dark.footer"),
      alignments |-> [t \in ElementTypes |-> Left(0)] ]

LightTheme ==
    [ default_style_colors |-> "light.default",
      block_quote_prefix |-> Some(<<"U258D", " ">>),
      block_quote_colors |-> "light.block_quote",
      code_padding_horizontal |-> Some(2),
      code_padding_vertical |-> Some(1),
      code_colors |-> "light.code",
      slide_title_padding_top |-> Some(1),
      slide_title_padding_bottom |-> Some(1),
      slide_title_separator |-> TRUE,
      slide_title_colors |-> "light.slide_title",
      headings |-> [l \in 1..6 |-> [prefix |-> Some(<<"#", "#">>), colors |-> "light.heading"]],
      intro_title_colors |-> "light.intro_title",
      intro_subtitle_colors |-> "light.intro_subtitle",
      intro_author_colors |-> "light.intro_author",
      intro_author_positioning |-> "PageBottom",
      footer |-> FooterProgressBar(None, "light.footer"),
      alignments |-> [t \in ElementTypes |->
                        IF t \in {"SlideTitle", "PresentationTitle", "PresentationSubTitle",
                                  "PresentationAuthor", "Code", "BlockQuote"}
                        THEN Center(0, 5) ELSE Left(1)] ]

Themes == {DarkTheme, LightTheme}

\* PresentationTheme::alignment
alignment(th, element_type) == th.alignments[element_type]

\* PresentationTheme::from_name: the theme of that name, if one exists.
from_name(theme_name) ==
    IF theme_name = <<"d", "a", "r", "k">> THEN Some(DarkTheme)
    ELSE IF theme_name = <<"l", "i", "g", "h", "t">> THEN Some(LightTheme)
    ELSE None

\* PresentationTheme::from_path: the theme stored in the file, or a
\* LoadThemeError.
from_path(theme_path) ==
    IF theme_path = <<"l", ".", "y", "m", "l">> THEN [ok |-> TRUE, theme |-> LightTheme]
    ELSE [ok |-> FALSE]

\* Overrides that merge_struct::merge cannot merge into a theme.
RejectedOverrides == [rejected |-> TRUE]

\* merge_struct::merge: the fields present in the overrides replace the
\* fields of the base, or the merge fails.
merge(base, overrides) ==
    IF "rejected" \in DOMAIN overrides THEN [ok |-> FALSE]
    ELSE [ok |-> TRUE,
          theme |-> [k \in DOMAIN base |-> IF k \in DOMAIN overrides THEN overrides[k] ELSE base[k]]]

---------------------------------------------------------------------------
(* presentation::RenderOperation *)

SetColors(c) == [op |-> "SetColors", colors |-> c]

ClearScreen == [op |-> "ClearScreen"]

RenderLineBreak == [op |-> "RenderLineBreak"]

RenderSeparator == [op |-> "RenderSeparator"]

JumpToVerticalCenter == [op |-> "JumpToVerticalCenter"]

JumpToSlideBottom == [op |-> "JumpToSlideBottom"]

JumpToWindowBottom == [op |-> "JumpToWindowBottom"]

RenderImage(image) == [op |-> "RenderImage", image |-> image]

RenderTextLine(texts, al) == [op |-> "RenderTextLine", texts |-> texts, alignment |-> al]

RenderPreformattedLine(text, unformatted_length, block_length, al) ==
    [op |-> "RenderPreformattedLine", text |-> text, unformatted_length |-> unformatted_length,
     block_length |-> block_length, alignment |-> al]

RenderDynamic(generator) == [op |-> "RenderDynamic", generator |-> generator]

\* Slide { render_operations }
Slide(ops) == [render_operations |-> ops]

---------------------------------------------------------------------------
(* markdown::elements: styled text *)

\* TextStyle: the flags and colors the builder sets (None: no colors).
DefaultStyle == [bold |-> FALSE, code |-> FALSE, colors |-> None]

bold(style) == [style EXCEPT !.bold = TRUE]

colors(style, c) == [style EXCEPT !.colors = Some(c)]

StyledText(text, style) == [text |-> text, style |-> style]

\* StyledText::from(String): plain text.
StyledTextFrom(text) == StyledText(text, DefaultStyle)

Text(chunks) == [chunks |-> chunks]

\* Text::from(&str) and Text::from(StyledText): a text of one chunk.
TextFrom(s) == Text(<<StyledTextFrom(s)>>)

\* TextStyle::merge as the builder uses it: the given style's flags are
\* added and its colors replace the chunk's.
merge_style(style, other) ==
    [bold |-> style.bold \/ other.bold, code |-> style.code \/ other.code,
     colors |-> IF is_some(other.colors) THEN other.colors ELSE style.colors]

\* Text::apply_style
apply_style(text, style) ==
    Text([i \in 1..Len(text.chunks) |->
            StyledText(text.chunks[i].text, merge_style(text.chunks[i].style, style))])

\* Text::width: the display width of the chunks together.
text_width(text) == SumSeq([i \in 1..Len(text.chunks) |-> width(text.chunks[i].text)])

\* WeightedText::from(StyledText): the chunk with its display width.
WeightedText(chunk) == [text |-> chunk.text, width |-> width(chunk.text), style |-> chunk.style]

---------------------------------------------------------------------------
(* External collaborators of the builder *)

\* serde_yaml::from_str::<PresentationMetadata>: the front matter is a list
\* of <<key, value>> entries; an unknown or repeated key is malformed.
MetadataKeys == {"title", "sub_title", "author", "theme.name", "theme.path", "theme.override"}

metadata_get(contents, key) ==
    LET at == {i \in 1..Len(contents) : contents[i][1] = key}
    IN  IF at = {} THEN None ELSE Some(contents[CHOOSE i \in at : TRUE][2])

parse_metadata(contents) ==
    IF \/ \E i \in 1..Len(contents) : contents[i][1] \notin MetadataKeys
       \/ \E i, j \in 1..Len(contents) : i # j /\ contents[i][1] = contents[j][1]
    THEN [ok |-> FALSE]
    ELSE [ok |-> TRUE,
          title |-> metadata_get(contents, "title"),
          sub_title |-> metadata_get(contents, "sub_title"),
          author |-> metadata_get(contents, "author"),
          theme |-> [theme_name |-> metadata_get(contents, "theme.name"),
                     theme_path |-> metadata_get(contents, "theme.path"),
                     overrides |-> metadata_get(contents, "theme.override")]]

\* Resources::image: the image handle, or a LoadImageError.
image(path) ==
    IF path = <<"a", ".", "p", "n", "g">> THEN [ok |-> TRUE, image |-> path] ELSE [ok |-> FALSE]

\* CodeHighlighter::highlight: one CodeLine per line of the code, the
\* formatted line being the original one with styling artifacts injected.
highlight(code, language) ==
    LET ls == lines_with_endings_from(code, <<>>)
    IN  [i \in 1..Len(ls) |-> [formatted |-> <<"ESC">> \o ls[i], original |-> ls[i]]]

---------------------------------------------------------------------------
(* PresentationBuilder.  The builder is a record of its fields; `contexts` *)
(* is the heap the Rc<RefCell<FooterContext>> points into and `error` the  *)
(* Err a `?` returned (None while there is none).                          *)

FooterContextDefault == [total_slides |-> 0, author |-> <<>>]

\* PresentationBuilder::new
new(th) ==
    [ slide_operations |-> <<>>,
      slides |-> <<>>,
      theme |-> th,
      ignore_element_line_break |-> FALSE,
      last_element_is_list |-> FALSE,
      footer_context |-> 1,
      contexts |-> <<FooterContextDefault>>,
      error |-> None ]

push(b, operation) == [b EXCEPT !.slide_operations = Append(@, operation)]

push_line_break(b) == push(b, RenderLineBreak)

RECURSIVE push_line_breaks(_, _)
push_line_breaks(b, n) == IF n <= 0 THEN b ELSE push_line_breaks(push_line_break(b), n - 1)

push_slide_prelude(b) ==
    push_line_break(push(push(b, SetColors(b.theme.default_style_colors)), ClearScreen))

push_text(b, text, element_type) ==
    LET al == alignment(b.theme, element_type)
        texts == [i \in 1..Len(text.chunks) |->
                    LET chunk == text.chunks[i]
                    IN  WeightedText(IF chunk.style.code
                                     THEN StyledText(chunk.text, colors(chunk.style, b.theme.code_colors))
                                     ELSE chunk)]
    IN  IF texts # <<>> THEN push(b, RenderTextLine(texts, al)) ELSE b

FooterGenerator(style, current_slide, context) ==
    [style |-> style, current_slide |-> current_slide, context |-> context]

\* A slip: the footer captures the number of the slide, not its index.
push_footer_one_based(b) ==
    push(b, RenderDynamic(FooterGenerator(b.theme.footer, Len(b.slides) + 1, b.footer_context)))

\* A slip: the footer owns a copy of the context instead of sharing it.
push_footer_copies_context(b) ==
    LET copied == [b EXCEPT !.contexts = Append(@, @[b.footer_context])]
    IN  push(copied, RenderDynamic(FooterGenerator(b.theme.footer, Len(b.slides),
                                                   Len(copied.contexts))))

push_footer(b) ==
    push(b, RenderDynamic(FooterGenerator(b.theme.footer, Len(b.slides), b.footer_context)))

\* A slip: the element that terminates a slide still gets its line break.
terminate_slide_keeps_line_break(b) ==
    LET footed == push_footer(b)
        pushed == [footed EXCEPT !.slides = Append(@, Slide(footed.slide_operations)),
                                 !.slide_operations = <<>>]
    IN  push_slide_prelude(pushed)

\* A slip: the footer is pushed after the slide was moved out, into the
\* operations of the next slide.
terminate_slide_footer_late(b) ==
    LET pushed == [b EXCEPT !.slides = Append(@, Slide(b.slide_operations)),
                            !.slide_operations = <<>>]
    IN  [push_footer(push_slide_prelude(pushed)) EXCEPT !.ignore_element_line_break = TRUE]

terminate_slide(b) ==
    LET footed == push_footer(b)
        pushed == [footed EXCEPT !.slides = Append(@, Slide(footed.slide_operations)),
                                 !.slide_operations = <<>>]
    IN  [push_slide_prelude(pushed) EXCEPT !.ignore_element_line_break = TRUE]

\* A slip: the saved operations are not put back after the slide is closed.
process_pause_without_restore(b) ==
    LET popped == IF /\ b.last_element_is_list
                     /\ b.slide_operations # <<>>
                     /\ b.slide_operations[Len(b.slide_operations)] = RenderLineBreak
                  THEN [b EXCEPT !.slide_operations = SubSeq(@, 1, Len(@) - 1)]
                  ELSE b
    IN  terminate_slide(popped)

\* A slip: the slide of a pause takes the place of the slide before it.
process_pause_overwrites_last(b) ==
    LET popped == IF /\ b.last_element_is_list
                     /\ b.slide_operations # <<>>
                     /\ b.slide_operations[Len(b.slide_operations)] = RenderLineBreak
                  THEN [b EXCEPT !.slide_operations = SubSeq(@, 1, Len(@) - 1)]
                  ELSE b
        next_operations == popped.slide_operations
        closed == terminate_slide(popped)
    IN  [closed EXCEPT !.slide_operations = next_operations,
                       !.slides = IF Len(@) > 1
                                  THEN Append(SubSeq(@, 1, Len(@) - 2), @[Len(@)])
                                  ELSE @]

process_pause(b) ==
    LET popped == IF /\ b.last_element_is_list
                     /\ b.slide_operations # <<>>
                     /\ b.slide_operations[Len(b.slide_operations)] = RenderLineBreak
                  THEN [b EXCEPT !.slide_operations = SubSeq(@, 1, Len(@) - 1)]
                  ELSE b
        next_operations == popped.slide_operations
    IN  [terminate_slide(popped) EXCEPT !.slide_operations = next_operations]

\* Comment::from_str
parse_comment(s) ==
    IF s = "pause" THEN Some("Pause") ELSE IF s = "end_slide" THEN Some("EndSlide") ELSE None

process_comment(b, comment) ==
    LET parsed == parse_comment(comment)
    IN  IF parsed = None THEN b
        ELSE IF parsed[1] = "Pause" THEN process_pause(b)
        ELSE terminate_slide(b)

push_slide_title(b, text) ==
    LET styled == apply_style(text, colors(bold(DefaultStyle), b.theme.slide_title_colors))
        b1 == push_line_breaks(b, unwrap_or(b.theme.slide_title_padding_top, 0))
        b2 == push_line_break(push_text(b1, styled, "SlideTitle"))
        b3 == push_line_breaks(b2, unwrap_or(b.theme.slide_title_padding_bottom, 0))
        b4 == IF b.theme.slide_title_separator THEN push(b3, RenderSeparator) ELSE b3
    IN  [push_line_break(b4) EXCEPT !.ignore_element_line_break = TRUE]

HeadingElementType(level) ==
    <<"Heading1", "Heading2", "Heading3", "Heading4", "Heading5", "Heading6">>[level]

push_heading(b, level, text) ==
    LET style == b.theme.headings[level]
        prefixed == IF is_some(style.prefix)
                    THEN Text(<<StyledTextFrom(Append(style.prefix[1], " "))>> \o text.chunks)
                    ELSE text
        styled == apply_style(prefixed, colors(bold(DefaultStyle), style.colors))
    IN  push_line_break(push_text(b, styled, HeadingElementType(level)))

RECURSIVE push_paragraph(_, _)
push_paragraph(b, paragraph) ==
    IF paragraph = <<>> THEN b
    ELSE IF Head(paragraph).kind = "Text"
         THEN push_paragraph(push_line_break(push_text(b, Head(paragraph).text, "Paragraph")),
                             Tail(paragraph))
         ELSE push_paragraph(b, Tail(paragraph))

push_image(b, path) ==
    LET loaded == image(path)
    IN  IF loaded.ok THEN push(b, RenderImage(loaded.image))
        ELSE [b EXCEPT !.error = Some("LoadImage")]

push_list_item(b, item) ==
    LET padding_length == (item.depth + 1) * 2
        marker == IF item.item_type.kind = "Unordered"
                  THEN <<IF item.depth = 0 THEN "U2022"
                         ELSE IF item.depth = 1 THEN "U25E6" ELSE "U25AA">>
                  ELSE IF item.item_type.kind = "OrderedParens"
                  THEN to_string(item.item_type.number) \o <<")", " ">>
                  ELSE to_string(item.item_type.number) \o <<".", " ">>
        prefix == Repeat(<<" ">>, padding_length) \o marker \o <<" ">>
        text == Text(<<StyledTextFrom(prefix)>> \o item.contents.chunks)
    IN  push_line_break(push_text(b, text, "List"))

RECURSIVE push_list(_, _)
push_list(b, items) ==
    IF items = <<>> THEN b ELSE push_list(push_list_item(b, Head(items)), Tail(items))

\* A slip: lengths counted in characters, not in terminal columns.
push_block_quote_counts_chars(b, quote) ==
    LET prefix == unwrap_or(b.theme.block_quote_prefix, <<>>)
        block_length == MaxSeq([i \in 1..Len(quote) |-> Len(quote[i]) + Len(prefix)])
        quoted == Concat([i \in 1..Len(quote) |->
                    LET line == prefix \o quote[i]
                    IN  <<RenderPreformattedLine(line, Len(line), block_length,
                                                 alignment(b.theme, "BlockQuote")),
                          RenderLineBreak>>])
    IN  [b EXCEPT !.slide_operations =
            @ \o <<SetColors(b.theme.block_quote_colors)>> \o quoted
              \o <<SetColors(b.theme.default_style_colors)>>]

push_block_quote(b, quote) ==
    LET prefix == unwrap_or(b.theme.block_quote_prefix, <<>>)
        block_length == MaxSeq([i \in 1..Len(quote) |-> width(quote[i]) + width(prefix)])
        quoted == Concat([i \in 1..Len(quote) |->
                    LET line == prefix \o quote[i]
                    IN  <<RenderPreformattedLine(line, width(line), block_length,
                                                 alignment(b.theme, "BlockQuote")),
                          RenderLineBreak>>])
    IN  [b EXCEPT !.slide_operations =
            @ \o <<SetColors(b.theme.block_quote_colors)>> \o quoted
              \o <<SetColors(b.theme.default_style_colors)>>]

\* The code push_code highlights: the contents with the theme's padding.
padded_code(contents, horizontal_padding, vertical_padding) ==
    IF horizontal_padding = 0 /\ vertical_padding = 0 THEN contents
    ELSE LET ls == lines(contents)
             top == IF vertical_padding > 0 THEN <<"\n">> ELSE <<>>
             body == IF horizontal_padding > 0
                     THEN Concat([i \in 1..Len(ls) |->
                                    Repeat(<<" ">>, horizontal_padding) \o ls[i] \o <<"\n">>])
                     ELSE contents
         IN  top \o body \o top

\* A slip: every line carries its own length as the length of the block.
push_code_length_per_line(b, code) ==
    LET horizontal_padding == unwrap_or(b.theme.code_padding_horizontal, 0)
        vertical_padding == unwrap_or(b.theme.code_padding_vertical, 0)
        padded == padded_code(code.contents, horizontal_padding, vertical_padding)
        ls == lines(padded)
        block_length == MaxSeq([i \in 1..Len(ls) |-> width(ls[i])]) + horizontal_padding
        code_lines == highlight(padded, code.language)
        rendered == Concat([i \in 1..Len(code_lines) |->
                      LET formatted == code_lines[i].formatted
                          trimmed == trim_end(formatted)
                          original_length == width(code_lines[i].original)
                                               - (width(formatted) - width(trimmed))
                      IN  <<RenderPreformattedLine(trimmed, original_length,
                                                   width(code_lines[i].original) + horizontal_padding,
                                                   alignment(b.theme, "Code")),
                            RenderLineBreak>>])
    IN  [b EXCEPT !.slide_operations = @ \o rendered]

push_code(b, code) ==
    LET horizontal_padding == unwrap_or(b.theme.code_padding_horizontal, 0)
        vertical_padding == unwrap_or(b.theme.code_padding_vertical, 0)
        padded == padded_code(code.contents, horizontal_padding, vertical_padding)
        ls == lines(padded)
        block_length == MaxSeq([i \in 1..Len(ls) |-> width(ls[i])]) + horizontal_padding
        code_lines == highlight(padded, code.language)
        rendered == Concat([i \in 1..Len(code_lines) |->
                      LET formatted == code_lines[i].formatted
                          trimmed == trim_end(formatted)
                          original_length == width(code_lines[i].original)
                                               - (width(formatted) - width(trimmed))
                      IN  <<RenderPreformattedLine(trimmed, original_length, block_length,
                                                   alignment(b.theme, "Code")),
                            RenderLineBreak>>])
    IN  [b EXCEPT !.slide_operations = @ \o rendered]

\* A slip: the last cell of a row is left unpadded.
prepare_table_row_unpadded_last(row, widths) ==
    Text(Concat([column \in 1..Len(row) |->
            LET text_length == text_width(row[column])
                cell_width == widths[column]
            IN  (IF column > 1 THEN <<StyledTextFrom(<<" ", "U2502", " ">>)>> ELSE <<>>)
                \o row[column].chunks
                \o (IF text_length < cell_width /\ column < Len(row)
                    THEN <<StyledTextFrom(Repeat(<<" ">>, cell_width - text_length))>>
                    ELSE <<>>)]))

prepare_table_row(row, widths) ==
    Text(Concat([column \in 1..Len(row) |->
            LET text_length == text_width(row[column])
                cell_width == widths[column]
            IN  (IF column > 1 THEN <<StyledTextFrom(<<" ", "U2502", " ">>)>> ELSE <<>>)
                \o row[column].chunks
                \o (IF text_length < cell_width
                    THEN <<StyledTextFrom(Repeat(<<" ">>, cell_width - text_length))>>
                    ELSE <<>>)]))

\* Table::columns and Table::iter_column feed the widths: per column, the
\* widest cell of the header and the rows.
table_widths(table) ==
    [column \in 1..Len(table.header) |->
        MaxSeq(<<text_width(table.header[column])>>
               \o [r \in 1..Len(table.rows) |-> text_width(table.rows[r][column])])]

\* A slip: every column gets the extra dashes of the first one.
table_separator_one_extra(widths) ==
    Text([index \in 1..Len(widths) |->
            StyledTextFrom((IF index > 1 THEN <<"U253C">> ELSE <<>>)
                           \o Repeat(<<"U2500">>, widths[index] + 1))])

table_separator(widths) ==
    Text([index \in 1..Len(widths) |->
            StyledTextFrom((IF index > 1 THEN <<"U253C">> ELSE <<>>)
                           \o Repeat(<<"U2500">>, widths[index] + (IF index > 1 THEN 2 ELSE 1)))])

RECURSIVE push_table_rows(_, _, _)
push_table_rows(b, rows, widths) ==
    IF rows = <<>> THEN b
    ELSE push_table_rows(push_line_break(push_text(b, prepare_table_row(Head(rows), widths), "Table")),
                         Tail(rows), widths)

push_table(b, table) ==
    LET widths == table_widths(table)
        b1 == push_line_break(push_text(b, prepare_table_row(table.header, widths), "Table"))
        b2 == push_line_break(push_text(b1, table_separator(widths), "Table"))
    IN  push_table_rows(b2, table.rows, widths)

\* A slip: the conflict of theme name and theme path goes unnoticed.
set_theme_without_conflict_check(b, metadata) ==
    IF is_some(metadata.theme_name) /\ from_name(metadata.theme_name[1]) = None
    THEN [b EXCEPT !.error = Some("InvalidMetadata")]
    ELSE IF is_some(metadata.theme_path) /\ ~from_path(metadata.theme_path[1]).ok
    THEN [b EXCEPT !.error = Some("InvalidTheme")]
    ELSE LET named == IF is_some(metadata.theme_name)
                      THEN from_name(metadata.theme_name[1])[1] ELSE b.theme
             loaded == IF is_some(metadata.theme_path)
                       THEN from_path(metadata.theme_path[1]).theme ELSE named
             merged == IF is_some(metadata.overrides)
                       THEN merge(loaded, metadata.overrides[1]) ELSE [ok |-> TRUE, theme |-> loaded]
         IN  IF ~merged.ok THEN [b EXCEPT !.theme = loaded, !.error = Some("InvalidMetadata")]
             ELSE [b EXCEPT !.theme = merged.theme]

set_theme(b, metadata) ==
    IF is_some(metadata.theme_name) /\ is_some(metadata.theme_path)
    THEN [b EXCEPT !.error = Some("InvalidMetadata")]
    ELSE IF is_some(metadata.theme_name) /\ from_name(metadata.theme_name[1]) = None
    THEN [b EXCEPT !.error = Some("InvalidMetadata")]
    ELSE IF is_some(metadata.theme_path) /\ ~from_path(metadata.theme_path[1]).ok
    THEN [b EXCEPT !.error = Some("InvalidTheme")]
    ELSE LET named == IF is_some(metadata.theme_name)
                      THEN from_name(metadata.theme_name[1])[1] ELSE b.theme
             loaded == IF is_some(metadata.theme_path)
                       THEN from_path(metadata.theme_path[1]).theme ELSE named
             merged == IF is_some(metadata.overrides)
                       THEN merge(loaded, metadata.overrides[1]) ELSE [ok |-> TRUE, theme |-> loaded]
         IN  IF ~merged.ok THEN [b EXCEPT !.theme = loaded, !.error = Some("InvalidMetadata")]
             ELSE [b EXCEPT !.theme = merged.theme]

\* A slip: the intro slide is not closed and the document runs on in it.
push_intro_slide_left_open(b, metadata) ==
    LET title == StyledText(unwrap_or(metadata.title, <<>>),
                            colors(bold(DefaultStyle), b.theme.intro_title_colors))
        b1 == push(b, JumpToVerticalCenter)
        b2 == push_line_break(push_text(b1, Text(<<title>>), "PresentationTitle"))
        b3 == IF is_some(metadata.sub_title)
              THEN push_line_break(push_text(b2,
                      Text(<<StyledText(metadata.sub_title[1],
                                        colors(DefaultStyle, b.theme.intro_subtitle_colors))>>),
                      "PresentationSubTitle"))
              ELSE b2
        b4 == IF is_some(metadata.author)
              THEN push_text(IF b.theme.intro_author_positioning = "BelowTitle"
                             THEN push_line_breaks(b3, 3)
                             ELSE push(b3, JumpToSlideBottom),
                             Text(<<StyledText(metadata.author[1],
                                               colors(DefaultStyle, b.theme.intro_author_colors))>>),
                             "PresentationAuthor")
              ELSE b3
    IN  b4

push_intro_slide(b, metadata) ==
    LET title == StyledText(unwrap_or(metadata.title, <<>>),
                            colors(bold(DefaultStyle), b.theme.intro_title_colors))
        b1 == push(b, JumpToVerticalCenter)
        b2 == push_line_break(push_text(b1, Text(<<title>>), "PresentationTitle"))
        b3 == IF is_some(metadata.sub_title)
              THEN push_line_break(push_text(b2,
                      Text(<<StyledText(metadata.sub_title[1],
                                        colors(DefaultStyle, b.theme.intro_subtitle_colors))>>),
                      "PresentationSubTitle"))
              ELSE b2
        b4 == IF is_some(metadata.author)
              THEN push_text(IF b.theme.intro_author_positioning = "BelowTitle"
                             THEN push_line_breaks(b3, 3)
                             ELSE push(b3, JumpToSlideBottom),
                             Text(<<StyledText(metadata.author[1],
                                               colors(DefaultStyle, b.theme.intro_author_colors))>>),
                             "PresentationAuthor")
              ELSE b3
    IN  terminate_slide(b4)

process_front_matter(b, contents) ==
    LET metadata == parse_metadata(contents)
    IN  IF ~metadata.ok THEN [b EXCEPT !.error = Some("InvalidMetadata")]
        ELSE LET b1 == [b EXCEPT !.contexts[b.footer_context].author =
                                      unwrap_or(metadata.author, <<>>)]
                 b2 == set_theme(b1, metadata.theme)
             IN  IF is_some(b2.error) THEN b2
                 ELSE IF \/ is_some(metadata.title)
                         \/ is_some(metadata.sub_title)
                         \/ is_some(metadata.author)
                 THEN push_intro_slide(push_slide_prelude(b2), metadata)
                 ELSE b2

\* A slip: every front matter is parsed, wherever it stands.
process_element_parses_front_matter(b, element) ==
    LET is_list == element.kind = "List"
        b1 == CASE element.kind = "FrontMatter" ->
                        [process_front_matter(b, element.contents)
                            EXCEPT !.ignore_element_line_break = TRUE]
                [] element.kind = "SetexHeading" -> push_slide_title(b, element.text)
                [] element.kind = "Heading" -> push_heading(b, element.level, element.text)
                [] element.kind = "Paragraph" -> push_paragraph(b, element.elements)
                [] element.kind = "List" -> push_list(b, element.items)
                [] element.kind = "Code" -> push_code(b, element.code)
                [] element.kind = "Table" -> push_table(b, element.table)
                [] element.kind = "ThematicBreak" -> terminate_slide(b)
                [] element.kind = "Comment" -> process_comment(b, element.comment)
                [] element.kind = "BlockQuote" -> push_block_quote(b, element.lines)
                [] element.kind = "Image" -> push_image(b, element.path)
    IN  IF is_some(b1.error) THEN b1 ELSE [b1 EXCEPT !.last_element_is_list = is_list]

process_element(b, element) ==
    LET is_list == element.kind = "List"
        b1 == CASE element.kind = "FrontMatter" -> [b EXCEPT !.ignore_element_line_break = TRUE]
                [] element.kind = "SetexHeading" -> push_slide_title(b, element.text)
                [] element.kind = "Heading" -> push_heading(b, element.level, element.text)
                [] element.kind = "Paragraph" -> push_paragraph(b, element.elements)
                [] element.kind = "List" -> push_list(b, element.items)
                [] element.kind = "Code" -> push_code(b, element.code)
                [] element.kind = "Table" -> push_table(b, element.table)
                [] element.kind = "ThematicBreak" -> terminate_slide(b)
                [] element.kind = "Comment" -> process_comment(b, element.comment)
                [] element.kind = "BlockQuote" -> push_block_quote(b, element.lines)
                [] element.kind = "Image" -> push_image(b, element.path)
    IN  IF is_some(b1.error) THEN b1 ELSE [b1 EXCEPT !.last_element_is_list = is_list]

---------------------------------------------------------------------------
(* FooterGenerator: the deferred footer operation *)

\* render_template's three str::replace calls, a placeholder being one token
\* of the template.
replace_placeholders(template, current_slide, context) ==
    Concat([i \in 1..Len(template) |->
              IF template[i] = "{current_slide}" THEN current_slide
              ELSE IF template[i] = "{total_slides}" THEN to_string(context.total_slides)
              ELSE IF template[i] = "{author}" THEN context.author
              ELSE <<template[i]>>])

render_template(template, current_slide, context, cs) ==
    WeightedText(StyledText(replace_placeholders(template, current_slide, context),
                            colors(DefaultStyle, cs)))

\* ceil(a / b) for naturals a and b > 0.
ceil_div(a, b) == (a + b - 1) \div b

\* f64: a finite value that is not negative is bits * 2^exp, the bits being
\* its significant binary digits, the most significant first and a one;
\* zero has no bits.  f64::MANTISSA_DIGITS of them are kept.
MANTISSA_DIGITS == 53

F64(bits, exp) == [bits |-> bits, exp |-> exp]

\* The binary digits of a natural in the given number of places.
digits(n, places) == [i \in 1..places |-> (n \div 2^(places - i)) % 2]

\* The binary digits of a natural below 2^30, the most significant first.
bits_of(n) ==
    digits(n, CHOOSE places \in 0..30 : n < 2^places /\ (places = 0 \/ n >= 2^(places - 1)))

\* The natural of the binary digits.
RECURSIVE value_of(_)
value_of(bits) ==
    IF bits = <<>> THEN 0
    ELSE IF Len(bits) = 1 THEN bits[1]
    ELSE LET half == Len(bits) \div 2
         IN  value_of(SubSeq(bits, 1, half)) * 2^(Len(bits) - half)
             + value_of(SubSeq(bits, half + 1, Len(bits)))

\* The digits plus one in the last place: the carry runs up to the last
\* zero.
increment(bits) ==
    IF \A i \in 1..Len(bits) : bits[i] = 1
    THEN <<1>> \o [i \in 1..Len(bits) |-> 0]
    ELSE LET zero == CHOOSE i \in 1..Len(bits) :
                        bits[i] = 0 /\ \A j \in (i + 1)..Len(bits) : bits[j] = 1
         IN  [i \in 1..Len(bits) |-> IF i < zero THEN bits[i] ELSE IF i = zero THEN 1 ELSE 0]

\* The rounding of every f64 operation: the exact result bits * 2^exp, plus
\* less than one unit of its last place when sticky, is rounded to the
\* nearest value of MANTISSA_DIGITS digits, a tie going to the even one.
round(bits, exp, sticky) ==
    IF Len(bits) <= MANTISSA_DIGITS THEN F64(bits, exp)
    ELSE LET kept == SubSeq(bits, 1, MANTISSA_DIGITS)
             dropped == SubSeq(bits, MANTISSA_DIGITS + 1, Len(bits))
             above_half == sticky \/ \E i \in 2..Len(dropped) : dropped[i] = 1
             up == dropped[1] = 1 /\ (above_half \/ kept[MANTISSA_DIGITS] = 1)
             rounded == IF up THEN increment(kept) ELSE kept
             scaled == exp + Len(dropped)
         IN  IF Len(rounded) > MANTISSA_DIGITS
             THEN F64(SubSeq(rounded, 1, MANTISSA_DIGITS), scaled + 1)
             ELSE F64(rounded, scaled)

\* 2^n modulo m, for m below 2^15.
RECURSIVE pow2_mod(_, _)
pow2_mod(n, m) ==
    IF n = 0 THEN 1 % m
    ELSE LET half == pow2_mod(n \div 2, m)
         IN  (half * half * (IF n % 2 = 1 THEN 2 ELSE 1)) % m

\* Long division of a by b: the remainder left after the place-th binary
\* digit behind the point, and that digit.
remainder_at(a, b, place) == (pow2_mod(place, b) * (a % b)) % b

digit_at(a, b, place) == (2 * remainder_at(a, b, place - 1)) \div b

\* a as f64 / b as f64 for naturals below 2^15, which the conversion keeps
\* as they are; b is not zero.  The quotient is divided out to one digit
\* more than are kept and rounded.
f64_div(a, b) ==
    IF a = 0 THEN F64(<<>>, 0)
    ELSE LET whole == bits_of(a \div b)
             first == IF whole # <<>> THEN 1
                      ELSE CHOOSE place \in 1..16 :
                              /\ digit_at(a, b, place) = 1
                              /\ \A before \in 1..(place - 1) : digit_at(a, b, before) = 0
             last == first + MANTISSA_DIGITS - Len(whole)
         IN  round(whole \o [i \in 1..(last - first + 1) |-> digit_at(a, b, first + i - 1)],
                   -last, remainder_at(a, b, last) # 0)

\* The digits times a natural below 2^17 plus a carry, thirteen digits at
\* a time from the last.
RECURSIVE times(_, _, _)
times(bits, n, carry) ==
    IF Len(bits) <= 13 THEN bits_of(value_of(bits) * n + carry)
    ELSE LET low == value_of(SubSeq(bits, Len(bits) - 12, Len(bits))) * n + carry
         IN  times(SubSeq(bits, 1, Len(bits) - 13), n, low \div 2^13) \o digits(low % 2^13, 13)

\* a as f64 * x for a natural a below 2^17.
f64_mul(a, x) ==
    IF a = 0 \/ x.bits = <<>> THEN F64(<<>>, 0)
    ELSE round(times(x.bits, a, 0), x.exp, FALSE)

\* f64::ceil and the conversion as usize of its result.
ceil(x) ==
    IF x.bits = <<>> THEN 0
    ELSE IF x.exp >= 0 THEN value_of(x.bits \o [i \in 1..x.exp |-> 0])
    ELSE IF -x.exp >= Len(x.bits) THEN 1
    ELSE LET whole == Len(x.bits) + x.exp
         IN  value_of(SubSeq(x.bits, 1, whole))
             + (IF \E i \in (whole + 1)..Len(x.bits) : x.bits[i] = 1 THEN 1 ELSE 0)

\* FooterGenerator::as_render_operations; ctxs is the heap of contexts.
as_render_operations(generator, dimensions, ctxs) ==
    LET context == ctxs[generator.context]
        style == generator.style
    IN  IF style.kind = "Template"
        THEN LET current_slide == to_string(generator.current_slide + 1)
             IN  (IF is_some(style.left)
                  THEN <<JumpToWindowBottom,
                         RenderTextLine(<<render_template(style.left[1], current_slide, context,
                                                          style.colors)>>, Left(1))>>
                  ELSE <<>>)
                 \o (IF is_some(style.right)
                     THEN <<JumpToWindowBottom,
                            RenderTextLine(<<render_template(style.right[1], current_slide, context,
                                                             style.colors)>>, Right(1))>>
                     ELSE <<>>)
        ELSE IF style.kind = "ProgressBar"
        THEN LET character == <<unwrap_or(style.character, "U2588")>>
                 total_columns == dimensions.columns \div width(character)
                 progress_ratio == f64_div(generator.current_slide + 1, context.total_slides)
                 columns_ratio == ceil(f64_mul(total_columns, progress_ratio))
                 bar == Repeat(character, columns_ratio)
             IN  <<JumpToWindowBottom,
                   RenderTextLine(<<WeightedText(StyledText(bar, colors(DefaultStyle, style.colors)))>>,
                                  Left(0))>>
        ELSE <<>>

---------------------------------------------------------------------------
(* PresentationBuilder::build, by the steps of its body *)

\* A slip: the first prelude is pushed although the intro slide left one.
build_start_always_prelude(b, els) ==
    LET b1 == IF els # <<>> /\ els[1].kind = "FrontMatter"
              THEN process_front_matter(b, els[1].contents) ELSE b
    IN  IF is_some(b1.error) THEN b1 ELSE push_slide_prelude(b1)

\* Lines 58-63: the leading front matter, then the first prelude.
build_start(b, els) ==
    LET b1 == IF els # <<>> /\ els[1].kind = "FrontMatter"
              THEN process_front_matter(b, els[1].contents) ELSE b
    IN  IF is_some(b1.error) THEN b1
        ELSE IF b1.slide_operations = <<>> THEN push_slide_prelude(b1) ELSE b1

\* A slip: the line break is appended whatever the element asked for.
build_element_always_breaks(b, element) ==
    LET b1 == process_element([b EXCEPT !.ignore_element_line_break = FALSE], element)
    IN  IF is_some(b1.error) THEN b1 ELSE push_line_break(b1)

\* Lines 65-69: one iteration of the loop over the elements.
build_element(b, element) ==
    LET b1 == process_element([b EXCEPT !.ignore_element_line_break = FALSE], element)
    IN  IF is_some(b1.error) THEN b1
        ELSE IF ~b1.ignore_element_line_break THEN push_line_break(b1) ELSE b1

\* A slip: the slide in progress at the end of the input is dropped.
build_last_slide_forgotten(b) == b

\* Lines 71-73: the slide in progress at the end of the input.
build_last_slide(b) == IF b.slide_operations # <<>> THEN terminate_slide(b) ELSE b

\* Line 74: the footer context learns the number of slides.
build_total_slides(b) == [b EXCEPT !.contexts[b.footer_context].total_slides = Len(b.slides)]

\* Presentation::new
Presentation(s) == [slides |-> s, current_slide |-> 0]

Pending == [kind |-> "Pending"]

Ok(presentation) == [kind |-> "Ok", presentation |-> presentation]

Err(error) == [kind |-> "Err", error |-> error]

RECURSIVE build_elements(_, _)
build_elements(b, els) ==
    IF els = <<>> THEN b
    ELSE LET b1 == build_element(b, Head(els))
         IN  IF is_some(b1.error) THEN b1 ELSE build_elements(b1, Tail(els))

\* build as a function of its input: the builder as build leaves it.
build_builder(th, els) ==
    LET b1 == build_start(new(th), els)
        b2 == IF is_some(b1.error) THEN b1 ELSE build_elements(b1, els)
    IN  IF is_some(b2.error) THEN b2 ELSE build_total_slides(build_last_slide(b2))

build(th, els) ==
    LET b == build_builder(th, els)
    IN  IF is_some(b.error) THEN Err(b.error[1]) ELSE Ok(Presentation(b.slides))

---------------------------------------------------------------------------
(* markdown::elements::MarkdownElement and the inputs of the model *)

FrontMatter(contents) == [kind |-> "FrontMatter", contents |-> contents]

SetexHeading(text) == [kind |-> "SetexHeading", text |-> text]

Heading(level, text) == [kind |-> "Heading", level |-> level, text |-> text]

Paragraph(paragraph) == [kind |-> "Paragraph", elements |-> paragraph]

List(items) == [kind |-> "List", items |-> items]

Code(contents, language) == [kind |-> "Code", code |-> [contents |-> contents, language |-> language]]

Table(header, rows) == [kind |-> "Table", table |-> [header |-> header, rows |-> rows]]

ThematicBreak == [kind |-> "ThematicBreak"]

Comment(comment) == [kind |-> "Comment", comment |-> comment]

BlockQuote(quote) == [kind |-> "BlockQuote", lines |-> quote]

Image(path) == [kind |-> "Image", path |-> path]

ListItem(depth, item_type, contents) == [depth |-> depth, item_type |-> item_type, contents |-> contents]

Bob == <<"b", "o", "b">>

Hello == <<"h", "e", "l", "l", "o">>

Bye == <<"b", "y", "e">>

Apple == <<"U82F9", "U679C">>

FrontMatterAuthor == FrontMatter(<<<<"author", Bob>>>>)

FrontMatterFull ==
    FrontMatter(<<<<"title", <<"T">>>>, <<"sub_title", <<"s">>>>, <<"author", Bob>>,
                  <<"theme.name", <<"l", "i", "g", "h", "t">>>>>>)

FrontMatterConflict ==
    FrontMatter(<<<<"title", <<"T">>>>, <<"theme.name", <<"d", "a", "r", "k">>>>,
                  <<"theme.path", <<"l", ".", "y", "m", "l">>>>>>)

\* The front matters a document can begin with.
FrontMatters ==
    { FrontMatter(<<>>),
      FrontMatterAuthor,
      FrontMatter(<<<<"title", <<"T">>>>, <<"sub_title", <<"s">>>>>>),
      FrontMatterFull,
      FrontMatterConflict,
      FrontMatter(<<<<"theme.name", <<"n", "o">>>>>>),
      FrontMatter(<<<<"author", Bob>>, <<"theme.path", <<"x">>>>>>),
      FrontMatter(<<<<"theme.path", <<"l", ".", "y", "m", "l">>>>,
                    <<"theme.override", [footer |-> FooterEmpty]>>>>),
      FrontMatter(<<<<"theme.name", <<"l", "i", "g", "h", "t">>>>,
                    <<"theme.override", RejectedOverrides>>>>),
      FrontMatter(<<<<"author", Bob>>, <<"colour", <<"x">>>>>>) }

CodeChunk(s) == StyledText(s, [bold |-> FALSE, code |-> TRUE, colors |-> None])

\* The elements of the body of a document.
BodyElements ==
    { SetexHeading(TextFrom(<<"T">>)),
      Heading(1, TextFrom(Hello)),
      Paragraph(<<[kind |-> "Text", text |-> Text(<<StyledTextFrom(<<"p">>), CodeChunk(<<"q">>)>>)],
                  [kind |-> "LineBreak"],
                  [kind |-> "Text", text |-> TextFrom(Bye)]>>),
      List(<<ListItem(0, [kind |-> "Unordered"], TextFrom(<<"x">>)),
             ListItem(1, [kind |-> "OrderedParens", number |-> 12], TextFrom(<<"y">>))>>),
      Code(<<"a", " ", "\n", "U82F9", "b">>, "Rust"),
      Table(<<TextFrom(<<"a">>), TextFrom(<<"b", "b">>)>>,
            <<<<TextFrom(<<"x">>), TextFrom(<<"y">>)>>>>),
      ThematicBreak,
      Comment("pause"),
      Comment("end_slide"),
      Comment("note"),
      BlockQuote(<<Apple, <<"a">>>>),
      Image(<<"a", ".", "p", "n", "g">>),
      Image(<<"b", ".", "p", "n", "g">>) }

\* A front matter after the first element is matched as FrontMatter(_).
LaterElements == BodyElements \cup {FrontMatterConflict}

FirstElements == BodyElements \cup FrontMatters

\* The inputs of the unit tests of src/builder.rs.
TestInputs ==
    { <<FrontMatterAuthor, Heading(1, TextFrom(Hello)), Comment("end_slide"), Heading(1, TextFrom(Bye))>>,
      <<BlockQuote(<<Apple>>), Code(Apple, "Unknown")>> }

Inputs ==
    {<<>>} \cup TestInputs
    \cup UNION {{<<first>> \o rest : first \in FirstElements, rest \in [1..n -> LaterElements]}
                : n \in 0..(MaxElems - 1)}

---------------------------------------------------------------------------
(* The state machine of build *)

\* The builder as the variables hold it.
Self ==
    [ slide_operations |-> slide_operations,
      slides |-> slides,
      theme |-> theme,
      ignore_element_line_break |-> ignore_element_line_break,
      last_element_is_list |-> last_element_is_list,
      footer_context |-> footer_context,
      contexts |-> contexts,
      error |-> None ]

Becomes(b) ==
    /\ slide_operations' = b.slide_operations
    /\ slides' = b.slides
    /\ theme' = b.theme
    /\ ignore_element_line_break' = b.ignore_element_line_break
    /\ last_element_is_list' = b.last_element_is_list
    /\ footer_context' = b.footer_context
    /\ contexts' = b.contexts

\* A step of build that may return an error with `?`.
Fallible(b, next_pc) ==
    /\ Becomes(b)
    /\ IF is_some(b.error)
       THEN pc' = "done" /\ result' = Err(b.error[1])
       ELSE pc' = next_pc /\ result' = result

\* No render session has started.
NoSession ==
    /\ session = "start"
    /\ drawer = "none"
    /\ raw_mode = FALSE
    /\ cursor_hidden = FALSE
    /\ handle = <<>>
    /\ frame = <<>>
    /\ window_dimensions = None
    /\ slide_dimensions = None

\* The builder before build runs.
Unbuilt ==
    /\ pc = "start"
    /\ idx = 0
    /\ slide_operations = new(default_theme).slide_operations
    /\ slides = new(default_theme).slides
    /\ theme = new(default_theme).theme
    /\ ignore_element_line_break = new(default_theme).ignore_element_line_break
    /\ last_element_is_list = new(default_theme).last_element_is_list
    /\ footer_context = new(default_theme).footer_context
    /\ contexts = new(default_theme).contexts
    /\ result = Pending

Init ==
    /\ elements \in Inputs
    /\ default_theme \in Themes
    /\ Unbuilt
    /\ NoSession
    /\ overflow_checks = TRUE

BuildStart ==
    /\ pc = "start"
    /\ Fallible(build_start(Self, elements), "loop")
    /\ UNCHANGED <<elements, default_theme, idx, drawer_vars>>

\* One iteration of the loop, on an element of the given kind.
BuildElement(kind) ==
    /\ pc = "loop"
    /\ idx < Len(elements)
    /\ elements[idx + 1].kind = kind
    /\ Fallible(build_element(Self, elements[idx + 1]), "loop")
    /\ idx' = idx + 1
    /\ UNCHANGED <<elements, default_theme, drawer_vars>>

BuildFrontMatter == BuildElement("FrontMatter")

BuildSetexHeading == BuildElement("SetexHeading")

BuildHeading == BuildElement("Heading")

BuildParagraph == BuildElement("Paragraph")

BuildList == BuildElement("List")

BuildCode == BuildElement("Code")

BuildTable == BuildElement("Table")

BuildThematicBreak == BuildElement("ThematicBreak")

BuildComment == BuildElement("Comment")

BuildBlockQuote == BuildElement("BlockQuote")

BuildImage == BuildElement("Image")

BuildLastSlide ==
    /\ pc = "loop"
    /\ idx = Len(elements)
    /\ Becomes(build_last_slide(Self))
    /\ pc' = "end"
    /\ UNCHANGED <<elements, default_theme, idx, result, drawer_vars>>

BuildReturn ==
    /\ pc = "end"
    /\ Becomes(build_total_slides(Self))
    /\ pc' = "done"
    /\ result' = Ok(Presentation(slides))
    /\ UNCHANGED <<elements, default_theme, idx, drawer_vars>>

Next ==
    \/ BuildStart
    \/ BuildFrontMatter
    \/ BuildSetexHeading
    \/ BuildHeading
    \/ BuildParagraph
    \/ BuildList
    \/ BuildCode
    \/ BuildTable
    \/ BuildThematicBreak
    \/ BuildComment
    \/ BuildBlockQuote
    \/ BuildImage
    \/ BuildLastSlide
    \/ BuildReturn

Spec == Init /\ [][Next]_vars

TypeOK ==
    /\ pc \in {"start", "loop", "end", "done"}
    /\ idx \in 0..Len(elements)
    /\ result.kind \in {"Pending", "Ok", "Err"}
    /\ (result.kind # "Pending" /\ session = "start") =>
          (pc = "done" /\ result = build(default_theme, elements))
    /\ session \in {"start", "running", "failed", "panicked", "ended"}
    /\ drawer \in {"none", "live", "dropped"}
    /\ raw_mode \in BOOLEAN
    /\ cursor_hidden \in BOOLEAN
    /\ overflow_checks \in BOOLEAN

---------------------------------------------------------------------------
(* build on a block quote and a code block of the same one-line text, as   *)
(* in test::preformatted_blocks_account_for_unicode_widths                 *)

TextChars == {"a", " ", "U82F9"}

Texts == UNION {[1..n -> TextChars] : n \in 0..MaxTextLen}

WidthInputs == {<<BlockQuote(<<text>>), Code(text, "Unknown")>> : text \in Texts}

WidthInit ==
    /\ elements \in WidthInputs
    /\ default_theme \in Themes
    /\ Unbuilt
    /\ NoSession
    /\ overflow_checks = TRUE

WidthNext ==
    \/ BuildStart
    \/ BuildBlockQuote
    \/ BuildCode
    \/ BuildLastSlide
    \/ BuildReturn

WidthSpec == WidthInit /\ [][WidthNext]_vars

---------------------------------------------------------------------------
(* build on a block quote of two lines and a code block of the same lines *)

BlockLines == UNION {[1..n -> TextChars] : n \in 0..MaxLineLen}

BlockInputs ==
    {<<BlockQuote(<<first, second>>), Code(first \o <<"\n">> \o second, "Unknown")>> :
        first \in BlockLines, second \in BlockLines}

BlockInit ==
    /\ elements \in BlockInputs
    /\ default_theme \in Themes
    /\ Unbuilt
    /\ NoSession
    /\ overflow_checks = TRUE

BlockNext ==
    \/ BuildStart
    \/ BuildBlockQuote
    \/ BuildCode
    \/ BuildLastSlide
    \/ BuildReturn

BlockSpec == BlockInit /\ [][BlockNext]_vars

---------------------------------------------------------------------------
(* build on one table whose rows have as many cells as the header *)

CellTexts == {Text(<<>>), TextFrom(<<"a">>), TextFrom(<<"U82F9">>)}

TableRows(columns) == [1..columns -> CellTexts]

Tables ==
    UNION {{Table(header, rows) :
                header \in TableRows(columns),
                rows \in UNION {[1..n -> TableRows(columns)] : n \in 0..MaxTableRows}} :
           columns \in 1..MaxTableColumns}

TableInit ==
    /\ elements \in {<<table>> : table \in Tables}
    /\ default_theme \in Themes
    /\ Unbuilt
    /\ NoSession
    /\ overflow_checks = TRUE

TableNext ==
    \/ BuildStart
    \/ BuildTable
    \/ BuildLastSlide
    \/ BuildReturn

TableSpec == TableInit /\ [][TableNext]_vars

---------------------------------------------------------------------------
(* render::draw::Drawer and the render session that owns it *)

MaxRows == 4

MaxColumns == 2

U16 == 65536

\* u16 subtraction where overflow wraps.
wrapping_sub(a, b) == (a - b + U16) % U16

\* crossterm::terminal::window_size: rows and columns are u16.
Windows == [rows : 0..MaxRows, columns : 0..MaxColumns, width : {0}, height : {0}]

MoveTo(column, row) == [cmd |-> "MoveTo", column |-> column, row |-> row]

\* The crossterm command that writes a text at the cursor.
Printed(text) == [cmd |-> "Print", text |-> text]

Hide == [cmd |-> "Hide"]

Show == [cmd |-> "Show"]

\* RenderOperator::render on the operations of a slide: every operation is
\* executed in order, a RenderDynamic being resolved with the dimensions and
\* its operations executed in its place.
RECURSIVE render_operations(_, _, _)
render_operations(ops, dimensions, ctxs) ==
    IF ops = <<>> THEN <<>>
    ELSE (IF Head(ops).op = "RenderDynamic"
          THEN render_operations(as_render_operations(Head(ops).generator, dimensions, ctxs),
                                 dimensions, ctxs)
          ELSE <<Head(ops)>>)
         \o render_operations(Tail(ops), dimensions, ctxs)

\* FooterStyle::render: the footer the theme draws by itself, if any.
footer_render(style, current_slide, total_slides, columns) ==
    IF style.kind = "Empty" THEN None
    ELSE IF style.kind = "ProgressBar"
    THEN Some(Repeat(<<unwrap_or(style.character, "U2588")>>,
                     ceil_div(columns * (current_slide + 1), total_slides)))
    ELSE Some(Concat([i \in 1..Len(unwrap_or(style.right, <<>>)) |->
                LET token == style.right[1][i]
                IN  IF token = "{current_slide}" THEN to_string(current_slide + 1)
                    ELSE IF token = "{total_slides}" THEN to_string(total_slides)
                    ELSE IF token = "{author}" THEN <<>>
                    ELSE <<token>>]))

\* The terminal receives the queued commands: Hide and Show act on the
\* cursor, the others are what the screen shows.
RECURSIVE cursor_after(_, _)
cursor_after(hidden, cmds) ==
    IF cmds = <<>> THEN hidden
    ELSE IF "cmd" \in DOMAIN Head(cmds) /\ Head(cmds).cmd = "Hide" THEN cursor_after(TRUE, Tail(cmds))
    ELSE IF "cmd" \in DOMAIN Head(cmds) /\ Head(cmds).cmd = "Show" THEN cursor_after(FALSE, Tail(cmds))
    ELSE cursor_after(hidden, Tail(cmds))

IsCursorCommand(c) == "cmd" \in DOMAIN c /\ c.cmd \in {"Hide", "Show"}

NotCursorCommand(c) == ~IsCursorCommand(c)

\* Drawer::new.  enable_raw_mode and the write of cursor::Hide can fail.
DrawerNew ==
    /\ session = "start"
    /\ pc = "done"
    /\ \E outcome \in {"ok", "enable_raw_mode fails", "queue fails"} :
          /\ raw_mode' = (IF outcome = "enable_raw_mode fails" THEN raw_mode ELSE TRUE)
          /\ handle' = (IF outcome = "ok" THEN Append(handle, Hide) ELSE handle)
          /\ drawer' = (IF outcome = "ok" THEN "live" ELSE "none")
          /\ session' = (IF outcome = "ok" THEN "running" ELSE "ended")
    /\ UNCHANGED <<builder_vars, result, cursor_hidden, frame, window_dimensions,
                   slide_dimensions, overflow_checks>>

\* What render_slide queues for a slide in a window, or that it panics on
\* an integer overflow: rows - 3 and rows - 1 are u16 subtractions.
slide_commands(th, presentation, dimensions, ctxs, checked) ==
    IF dimensions.rows < 3 /\ checked THEN [panic |-> TRUE]
    ELSE LET reduced == [dimensions EXCEPT !.rows = wrapping_sub(dimensions.rows, 3)]
             slide == presentation.slides[presentation.current_slide + 1]
             rendered == render_operations(slide.render_operations, reduced, ctxs)
             rendered_footer == footer_render(th.footer, presentation.current_slide,
                                              Len(presentation.slides), dimensions.columns)
         IN  IF is_some(rendered_footer) /\ dimensions.rows < 1 /\ checked THEN [panic |-> TRUE]
             ELSE [panic |-> FALSE,
                   dimensions |-> reduced,
                   cmds |-> rendered
                            \o (IF is_some(rendered_footer)
                                THEN <<MoveTo(0, wrapping_sub(dimensions.rows, 1)),
                                       Printed(rendered_footer[1])>>
                                ELSE <<>>)]

\* The flush of the handle: the terminal receives what was queued.
Flush(cmds) ==
    /\ cursor_hidden' = cursor_after(cursor_hidden, handle \o cmds)
    /\ frame' = SelectSeq(cmds, NotCursorCommand)
    /\ handle' = <<>>

\* Drawer::render_slide.  window_size, a write and the flush can fail; the
\* writes before the one that fails stay queued in the handle; the caller
\* leaves the session on an error.
RenderSlide ==
    /\ session = "running"
    /\ drawer = "live"
    /\ result.kind = "Ok"
    /\ \E dimensions \in Windows, outcome \in {"ok", "window_size fails", "render fails", "flush fails"} :
          IF outcome = "window_size fails"
          THEN /\ session' = "failed"
               /\ UNCHANGED <<cursor_hidden, frame, handle, window_dimensions, slide_dimensions>>
          ELSE LET drawn == slide_commands(default_theme, result.presentation, dimensions,
                                           contexts, overflow_checks)
               IN  /\ window_dimensions' = Some(dimensions)
                   /\ IF drawn.panic
                      THEN /\ session' = "panicked"
                           /\ UNCHANGED <<cursor_hidden, frame, handle, slide_dimensions>>
                      ELSE /\ slide_dimensions' = Some(drawn.dimensions)
                           /\ IF outcome = "render fails"
                              THEN /\ session' = "failed"
                                   /\ \E written \in 0..(Len(drawn.cmds) - 1) :
                                         handle' = handle \o SubSeq(drawn.cmds, 1, written)
                                   /\ UNCHANGED <<cursor_hidden, frame>>
                              ELSE IF outcome = "flush fails"
                              THEN /\ session' = "failed"
                                   /\ handle' = handle \o drawn.cmds
                                   /\ UNCHANGED <<cursor_hidden, frame>>
                              ELSE session' = "running" /\ Flush(drawn.cmds)
    /\ UNCHANGED <<builder_vars, result, drawer, raw_mode, overflow_checks>>

\* The operations render_error draws.
error_operations ==
    <<ClearScreen,
      SetColors("red on black"),
      JumpToVerticalCenter,
      RenderTextLine(<<WeightedText(StyledText(<<"E", "r", "r", "o", "r", " ", "l", "o", "a", "d", "i",
                                                 "n", "g", " ", "p", "r", "e", "s", "e", "n", "t", "a",
                                                 "t", "i", "o", "n">>, bold(DefaultStyle))),
                       WeightedText(StyledTextFrom(<<":", " ">>))>>, Center(0, 5)),
      RenderLineBreak,
      RenderLineBreak,
      RenderTextLine(<<WeightedText(StyledTextFrom(<<"m", "s", "g">>))>>, Center(0, 5))>>

\* Drawer::render_error.  The RenderOperator gets the dimensions of the
\* window as they are.
RenderError ==
    /\ session = "running"
    /\ drawer = "live"
    /\ result.kind = "Err"
    /\ \E dimensions \in Windows, outcome \in {"ok", "window_size fails", "render fails", "flush fails"} :
          IF outcome = "window_size fails"
          THEN /\ session' = "failed"
               /\ UNCHANGED <<cursor_hidden, frame, handle, window_dimensions, slide_dimensions>>
          ELSE /\ window_dimensions' = Some(dimensions)
               /\ slide_dimensions' = Some(dimensions)
               /\ IF outcome = "render fails"
                  THEN /\ session' = "failed"
                       /\ \E written \in 0..(Len(error_operations) - 1) :
                             handle' = handle \o SubSeq(error_operations, 1, written)
                       /\ UNCHANGED <<cursor_hidden, frame>>
                  ELSE IF outcome = "flush fails"
                  THEN /\ session' = "failed"
                       /\ handle' = handle \o error_operations
                       /\ UNCHANGED <<cursor_hidden, frame>>
                  ELSE session' = "running" /\ Flush(error_operations)
    /\ UNCHANGED <<builder_vars, result, drawer, raw_mode, overflow_checks>>

\* Presentation's cursor moves within the slides.
Navigate ==
    /\ session = "running"
    /\ result.kind = "Ok"
    /\ \E to \in 0..(Len(result.presentation.slides) - 1) :
          /\ to # result.presentation.current_slide
          /\ result' = [result EXCEPT !.presentation.current_slide = to]
    /\ UNCHANGED <<builder_vars, drawer_vars>>

\* Drop for Drawer: the session ends, after a normal exit, an error return
\* or a panic that unwinds.  The write of cursor::Show and disable_raw_mode
\* can fail, and drop ignores both results.  What is queued reaches the
\* terminal when the handle goes away.
DrawerDrop ==
    /\ session \in {"running", "failed", "panicked"}
    /\ drawer = "live"
    /\ drawer' = "dropped"
    /\ session' = "ended"
    /\ \E queue_fails, disable_raw_mode_fails \in BOOLEAN :
          /\ cursor_hidden' = cursor_after(cursor_hidden,
                                           IF queue_fails THEN handle ELSE Append(handle, Show))
          /\ raw_mode' = (IF disable_raw_mode_fails THEN raw_mode ELSE FALSE)
    /\ handle' = <<>>
    /\ UNCHANGED <<builder_vars, result, frame, window_dimensions, slide_dimensions,
                   overflow_checks>>

\* The inputs whose presentations the session draws.
DrawInputs == TestInputs \cup {<<FrontMatterConflict>>, <<Heading(1, TextFrom(Hello)), Comment("pause")>>}

\* The program builds the presentation and then draws it.
DrawInit ==
    /\ elements \in DrawInputs
    /\ default_theme \in Themes
    /\ Unbuilt
    /\ NoSession
    /\ overflow_checks \in BOOLEAN

DrawNext ==
    \/ BuildStart
    \/ BuildFrontMatter
    \/ BuildHeading
    \/ BuildCode
    \/ BuildComment
    \/ BuildBlockQuote
    \/ BuildLastSlide
    \/ BuildReturn
    \/ DrawerNew
    \/ RenderSlide
    \/ RenderError
    \/ Navigate
    \/ DrawerDrop

DrawSpec == DrawInit /\ [][DrawNext]_vars

---------------------------------------------------------------------------
(* The progress bar of every slide of a presentation, in windows of every  *)
(* width                                                                   *)

\* Presentations of one to MaxSlides slides: thematic breaks between them.
BarInputs == {[i \in 1..n |-> ThematicBreak] : n \in 0..(MaxSlides - 1)}

\* Themes whose footer is a progress bar, of the default glyph or of a wide
\* one.
BarThemes ==
    {[LightTheme EXCEPT !.footer = FooterProgressBar(character, "light.footer")] :
        character \in {None, Some("U82F9")}}

BarWindows == [rows : {MaxRows}, columns : 0..MaxBarColumns, width : {0}, height : {0}]

BarInit ==
    /\ elements \in BarInputs
    /\ default_theme \in BarThemes
    /\ Unbuilt
    /\ NoSession
    /\ overflow_checks = TRUE

\* RenderOperator::render on the RenderDynamic that closes a slide of the
\* built presentation: the generator is asked for its operations with the
\* dimensions the operator was made with, and they are what is drawn.
ResolveFooter ==
    /\ pc = "done"
    /\ result.kind = "Ok"
    /\ session = "start"
    /\ \E i \in 1..Len(result.presentation.slides), dimensions \in BarWindows :
          LET operations == result.presentation.slides[i].render_operations
              footer == operations[Len(operations)]
          IN  /\ footer.op = "RenderDynamic"
              /\ slide_dimensions' = Some(dimensions)
              /\ frame' = as_render_operations(footer.generator, dimensions, contexts)
    /\ session' = "ended"
    /\ UNCHANGED <<builder_vars, result, drawer, raw_mode, cursor_hidden, handle,
                   window_dimensions, overflow_checks>>

BarNext ==
    \/ BuildStart
    \/ BuildThematicBreak
    \/ BuildLastSlide
    \/ BuildReturn
    \/ ResolveFooter

BarSpec == BarInit /\ [][BarNext]_vars

---------------------------------------------------------------------------
(* The built presentation and the slides the input asks for *)

Built == result.kind = "Ok"

BuiltSlides == result.presentation.slides

Ops(i) == BuiltSlides[i].render_operations

\* A slide's operations without its trailing footer operation.
Content(ops) ==
    IF ops # <<>> /\ ops[Len(ops)].op = "RenderDynamic" THEN SubSeq(ops, 1, Len(ops) - 1) ELSE ops

IsPause(element) == element.kind = "Comment" /\ element.comment = "pause"

IsEndSlide(element) ==
    \/ element.kind = "ThematicBreak"
    \/ element.kind = "Comment" /\ element.comment = "end_slide"

HasIntro(els) ==
    /\ els # <<>>
    /\ els[1].kind = "FrontMatter"
    /\ \E i \in 1..Len(els[1].contents) : els[1].contents[i][1] \in {"title", "sub_title", "author"}

\* The physical slides an input asks for, in order: the elements of the
\* logical slide that are rendered into the slide (first..last) and what
\* closes it (the intro slide, a pause, a thematic break or end_slide, or
\* the end of the input).
RECURSIVE SlidePlanFrom(_, _, _)
SlidePlanFrom(els, i, first) ==
    IF i > Len(els) THEN <<[first |-> first, last |-> Len(els), closer |-> "eof"]>>
    ELSE IF IsPause(els[i])
    THEN <<[first |-> first, last |-> i, closer |-> "pause"]>> \o SlidePlanFrom(els, i + 1, first)
    ELSE IF IsEndSlide(els[i])
    THEN <<[first |-> first, last |-> i, closer |-> "end"]>> \o SlidePlanFrom(els, i + 1, i + 1)
    ELSE SlidePlanFrom(els, i + 1, first)

SlidePlan(els) ==
    (IF HasIntro(els) THEN <<[first |-> 1, last |-> 0, closer |-> "intro"]>> ELSE <<>>)
    \o SlidePlanFrom(els, 1, 1)

Plan == SlidePlan(elements)

Planned(i) == i \in 1..Len(Plan)

BlockQuotesIn(span) ==
    Cardinality({j \in span.first..span.last : elements[j].kind = "BlockQuote"})

PausesIn(span) == {j \in span.first..span.last : IsPause(elements[j])}

\* The last physical slide of the logical slide that physical slide i is in.
RECURSIVE LastOfLogical(_)
LastOfLogical(i) ==
    IF Planned(i) /\ Plan[i].closer = "pause" /\ Planned(i + 1) THEN LastOfLogical(i + 1) ELSE i

---------------------------------------------------------------------------
(* C1: the slide prelude *)

\* C1 as stated: every slide of a built presentation contains exactly one
\* SetColors operation and exactly one ClearScreen operation.
C1_OneSetColorsOneClearScreen ==
    Built => \A i \in 1..Len(BuiltSlides) :
                /\ Count(Ops(i), "SetColors") = 1
                /\ Count(Ops(i), "ClearScreen") = 1

\* C1 (amended): every slide of a built presentation begins with SetColors,
\* ClearScreen, contains exactly one ClearScreen, and contains one SetColors
\* plus two for every block quote rendered into it, so exactly one SetColors
\* when the slide renders no block quote.
C1_PreludeOnce ==
    Built => \A i \in 1..Len(BuiltSlides) :
                /\ Len(Ops(i)) >= 2
                /\ Ops(i)[1].op = "SetColors"
                /\ Ops(i)[2].op = "ClearScreen"
                /\ Count(Ops(i), "ClearScreen") = 1
                /\ Planned(i) =>
                     Count(Ops(i), "SetColors") = 1 + 2 * BlockQuotesIn(Plan[i])

\* An intro slide, a slide with a block quote and a slide without one.
C1_Witness ==
    /\ Built
    /\ Len(BuiltSlides) = 3
    /\ Plan[1].closer = "intro"
    /\ BlockQuotesIn(Plan[2]) = 1
    /\ BlockQuotesIn(Plan[3]) = 0
    /\ Count(Ops(2), "SetColors") = 3
    /\ Count(Ops(3), "SetColors") = 1

---------------------------------------------------------------------------
(* C2: how a slide starts *)

\* test::is_visible
is_visible(operation) ==
    operation.op \notin {"ClearScreen", "SetColors", "JumpToVerticalCenter", "JumpToSlideBottom",
                         "JumpToWindowBottom"}

IsIntroSlide(i) == i = 1 /\ HasIntro(elements)

\* C2: in every slide of a built presentation other than the intro slide,
\* the first visible operation is a line break and the second visible
\* operation is not a line break.
C2_SlidesStartWithOneNewline ==
    Built => \A i \in 1..Len(BuiltSlides) :
                ~IsIntroSlide(i) =>
                    LET visible == SelectSeq(Ops(i), is_visible)
                    IN  /\ visible # <<>>
                        /\ visible[1] = RenderLineBreak
                        /\ Len(visible) >= 2 => visible[2] # RenderLineBreak

---------------------------------------------------------------------------
(* C3: the slides of a logical slide with pauses *)

IsStrictPrefix(s, t) == IsPrefix(s, t) /\ Len(s) < Len(t)

\* C3 as stated: a slide closed by a pause is, without its footer, a strict
\* prefix of the last slide of its logical slide, without its footer.
C3_StrictPrefix ==
    Built => \A i \in 1..Len(BuiltSlides) :
                (Planned(i) /\ Plan[i].closer = "pause" /\ LastOfLogical(i) <= Len(BuiltSlides)) =>
                    IsStrictPrefix(Content(Ops(i)), Content(Ops(LastOfLogical(i))))

\* C3 (amended): a slide closed by a pause is, without its footer, a prefix
\* of the last slide of its logical slide, without its footer, and of every
\* slide in between; the two are equal when nothing is rendered after the
\* pause.
C3_Prefix ==
    Built => \A i \in 1..Len(BuiltSlides) :
                (Planned(i) /\ Plan[i].closer = "pause") =>
                    /\ LastOfLogical(i) \in (i + 1)..Len(BuiltSlides)
                    /\ \A k \in (i + 1)..LastOfLogical(i) :
                          IsPrefix(Content(Ops(i)), Content(Ops(k)))

\* Two pauses in one logical slide: the first slide is a strict prefix of
\* the last one, the second one is equal to it.
C3_Witness ==
    /\ Built
    /\ Len(BuiltSlides) = 3
    /\ Plan[1].closer = "pause"
    /\ Plan[2].closer = "pause"
    /\ LastOfLogical(1) = 3
    /\ IsStrictPrefix(Content(Ops(1)), Content(Ops(2)))
    /\ Content(Ops(2)) = Content(Ops(3))

---------------------------------------------------------------------------
(* C4: a logical slide with pauses and the same slide without them *)

NotPause(element) == ~IsPause(element)

\* The presentation built from the same elements without the pauses.
WithoutPauses == build(default_theme, SelectSeq(elements, NotPause))

NotClosedByPause(i) == Plan[i].closer # "pause"

\* The physical slides that are the last of their logical slide.
LastSlides == SelectSeq([i \in 1..Len(Plan) |-> i], NotClosedByPause)

NotLineBreak(operation) == operation # RenderLineBreak

PauseAfterList(span) ==
    \E j \in PausesIn(span) : j > 1 /\ elements[j - 1].kind = "List"

\* C4 as stated: the last slide of a logical slide with pauses has the
\* content of the slide built from the same elements without the pauses.
C4_LastSlideEqualsUnpaused ==
    Built => /\ WithoutPauses.kind = "Ok"
             /\ Len(WithoutPauses.presentation.slides) = Len(LastSlides)
             /\ \A g \in 1..Len(LastSlides) :
                   (LastSlides[g] <= Len(BuiltSlides) /\ PausesIn(Plan[LastSlides[g]]) # {}) =>
                       Content(Ops(LastSlides[g]))
                         = Content(WithoutPauses.presentation.slides[g].render_operations)

\* Removing the pauses leaves the input with the same leading element, or
\* at least does not make a front matter the leading element.
SameLeadingFrontMatter ==
    ~\E j \in 2..Len(elements) :
        /\ elements[j].kind = "FrontMatter"
        /\ \A h \in 1..(j - 1) : IsPause(elements[h])

\* C4 (amended): unless removing the pauses makes a front matter the leading
\* element, the last slide of a logical slide with pauses has the content
\* of the slide built from the same elements without the pauses when no
\* pause immediately follows a list; when one does, the two differ in line
\* breaks only, the one the build appends after the list being dropped by
\* the pause.
C4_LastSlideEqualsUnpausedButLists ==
    (Built /\ SameLeadingFrontMatter) =>
        /\ WithoutPauses.kind = "Ok"
        /\ Len(WithoutPauses.presentation.slides) = Len(LastSlides)
        /\ \A g \in 1..Len(LastSlides) :
              (LastSlides[g] <= Len(BuiltSlides) /\ PausesIn(Plan[LastSlides[g]]) # {}) =>
                  LET paused == Content(Ops(LastSlides[g]))
                      unpaused == Content(WithoutPauses.presentation.slides[g].render_operations)
                  IN  /\ ~PauseAfterList(Plan[LastSlides[g]]) => paused = unpaused
                      /\ SelectSeq(paused, NotLineBreak) = SelectSeq(unpaused, NotLineBreak)
                      /\ Len(paused) <= Len(unpaused)

\* A pause between two elements that render, the first of them no list.
C4_Witness ==
    /\ Built
    /\ Len(elements) = 3
    /\ elements[1].kind = "Heading"
    /\ IsPause(elements[2])
    /\ elements[3].kind = "Table"
    /\ Len(BuiltSlides) = 2
    /\ Content(Ops(2)) = Content(WithoutPauses.presentation.slides[1].render_operations)

---------------------------------------------------------------------------
(* C5: the number of slides *)

Terminators(els) == {j \in 1..Len(els) : IsPause(els[j]) \/ IsEndSlide(els[j])}

TestAuthorInput ==
    <<FrontMatterAuthor, Heading(1, TextFrom(Hello)), Comment("end_slide"), Heading(1, TextFrom(Bye))>>

\* C5: when the build succeeds and the last element is no slide terminator,
\* there is one slide for the intro (if the front matter sets title,
\* subtitle or author), one for every thematic break, end_slide and pause,
\* and one more; the input of the unit test gives 3 slides.
C5_SlideCount ==
    /\ (Built /\ (elements = <<>> \/ ~IsEndSlide(elements[Len(elements)]))) =>
          Len(BuiltSlides) = (IF HasIntro(elements) THEN 1 ELSE 0)
                               + Cardinality(Terminators(elements)) + 1
    /\ (Built /\ elements = TestAuthorInput) => Len(BuiltSlides) = 3

C5_Witness ==
    /\ Built
    /\ elements = TestAuthorInput
    /\ Len(BuiltSlides) = 3

---------------------------------------------------------------------------
(* C6, C7: the footer of every slide *)

Footer(i) == Ops(i)[Len(Ops(i))]

TestWindow == [rows |-> 24, columns |-> 80, width |-> 0, height |-> 0]

\* C6: the footer of the slide at 0-based position i captured
\* current_slide = i, and a template footer shows it as i + 1.
C6_FooterCapturesSlideIndex ==
    Built => \A i \in 1..Len(BuiltSlides) :
                /\ Footer(i).op = "RenderDynamic"
                /\ Footer(i).generator.current_slide = i - 1
                /\ (/\ Footer(i).generator.style.kind = "Template"
                    /\ Footer(i).generator.style.right = Some(<<"{current_slide}", " ", "/", " ", "{total_slides}">>))
                   => LET rendered == as_render_operations(Footer(i).generator, TestWindow, contexts)
                          shown == rendered[Len(rendered)].texts[1].text
                      IN  SubSeq(shown, 1, Len(shown) - 4) = to_string(i)

\* An intro slide, a slide closed by a pause and the slide after it, with
\* a template footer.
C6_Witness ==
    /\ Built
    /\ Len(BuiltSlides) = 3
    /\ Plan[1].closer = "intro"
    /\ Plan[2].closer = "pause"
    /\ Footer(3).generator.style.kind = "Template"
    /\ Footer(3).generator.current_slide = 2

FooterContexts == {Footer(i).generator.context : i \in 1..Len(BuiltSlides)}

\* C7: total_slides of the footer context changes once, in the step in
\* which build returns, after the last slide was pushed; every footer refers
\* to the builder's context and reads the number of slides from it once
\* build has returned.
C7_TotalSlidesWrittenOnce ==
    /\ [](pc # "done" => \A c \in 1..Len(contexts) : contexts[c].total_slides = 0)
    /\ [][(\E c \in 1..Len(contexts) : contexts'[c].total_slides # contexts[c].total_slides)
            => (pc = "end" /\ pc' = "done" /\ slides' = slides /\ Len(contexts') = Len(contexts))]_vars
    /\ [](Built => /\ FooterContexts = {footer_context}
                   /\ \A c \in FooterContexts : contexts[c].total_slides = Len(BuiltSlides))

C7_Witness ==
    /\ Built
    /\ Len(BuiltSlides) = 3
    /\ FooterContexts = {footer_context}
    /\ contexts[footer_context].total_slides = 3

---------------------------------------------------------------------------
(* C8: the errors of build *)

ThemeConflict(els) ==
    /\ els # <<>>
    /\ els[1].kind = "FrontMatter"
    /\ parse_metadata(els[1].contents).ok
    /\ is_some(parse_metadata(els[1].contents).theme.theme_name)
    /\ is_some(parse_metadata(els[1].contents).theme.theme_path)

\* C8: a leading front matter with theme name and theme path makes build
\* return InvalidMetadata before any element is processed; build returns
\* nothing before it is done, and then either the presentation of all the
\* elements or one of the three errors.
C8_ErrorsAbortBuild ==
    /\ (pc = "done" /\ ThemeConflict(elements)) =>
          (result = Err("InvalidMetadata") /\ idx = 0 /\ slides = <<>> /\ slide_operations = <<>>)
    /\ pc # "done" => result = Pending
    /\ pc = "done" =>
          \/ /\ result = Ok(Presentation(slides))
             /\ idx = Len(elements)
             /\ slides # <<>>
             /\ \A i \in 1..Len(slides) :
                   slides[i].render_operations[Len(slides[i].render_operations)].op = "RenderDynamic"
          \/ result \in {Err("InvalidMetadata"), Err("InvalidTheme"), Err("LoadImage")}

C8_Witness ==
    /\ pc = "done"
    /\ ThemeConflict(elements)
    /\ Len(elements) = 3
    /\ result = Err("InvalidMetadata")

---------------------------------------------------------------------------
(* C9: the terminal after a render session *)

\* C9: once a render session has ended, on whatever path, raw mode is
\* disabled and the cursor is shown.
C9_TerminalRestored == session = "ended" => (~raw_mode /\ ~cursor_hidden)

---------------------------------------------------------------------------
(* C10: the lengths of preformatted lines *)

Preformatted == SelectSeq(Ops(1), LAMBDA operation : operation.op = "RenderPreformattedLine")

PlainTheme ==
    /\ theme.block_quote_prefix = None
    /\ unwrap_or(theme.code_padding_horizontal, 0) = 0
    /\ unwrap_or(theme.code_padding_vertical, 0) = 0

QuotedText == elements[1].lines[1]

\* C10 as stated: without quote prefix and code padding, every preformatted
\* line of the block quote and of the code block has block_length and
\* unformatted_length equal to the display width of the text.
C10_LengthsAreDisplayWidth ==
    (Built /\ PlainTheme) =>
        \A i \in 1..Len(Preformatted) :
            /\ Preformatted[i].block_length = width(QuotedText)
            /\ Preformatted[i].unformatted_length = width(QuotedText)

\* C10 (amended): without quote prefix and code padding, the line of the
\* block quote has block_length and unformatted_length equal to the display
\* width of the text; the line of the code block has block_length equal to
\* the display width of the text and unformatted_length equal to the display
\* width of the text without its trailing whitespace.
C10_LengthsAreDisplayWidthTrimmed ==
    (Built /\ PlainTheme) =>
        /\ Len(Preformatted) = (IF QuotedText = <<>> THEN 1 ELSE 2)
        /\ Preformatted[1].block_length = width(QuotedText)
        /\ Preformatted[1].unformatted_length = width(QuotedText)
        /\ Len(Preformatted) = 2 =>
              /\ Preformatted[2].block_length = width(QuotedText)
              /\ Preformatted[2].unformatted_length = width(trim_end(QuotedText))

\* A text with a double-width character: more columns than characters.
C10_Witness ==
    /\ Built
    /\ PlainTheme
    /\ QuotedText = <<"a", "U82F9">>
    /\ Len(Preformatted) = 2
    /\ Preformatted[1].block_length = 3
    /\ Preformatted[2].unformatted_length = 3

---------------------------------------------------------------------------
(* C11, C12: the lines of a table *)

\* The characters of a text line operation.
LineChars(operation) == Concat([i \in 1..Len(operation.texts) |-> operation.texts[i].text])

\* The characters of each line of a sequence of operations: one entry per
\* line break, empty when no text precedes the break.
RECURSIVE LinesOf(_)
LinesOf(ops) ==
    IF ops = <<>> THEN <<>>
    ELSE IF Head(ops).op = "RenderLineBreak" THEN <<<<>>>> \o LinesOf(Tail(ops))
    ELSE IF Head(ops).op = "RenderTextLine" /\ Len(ops) > 1 /\ ops[2].op = "RenderLineBreak"
    THEN <<LineChars(Head(ops))>> \o LinesOf(Tail(Tail(ops)))
    ELSE LinesOf(Tail(ops))

TheTable == elements[1].table

\* The lines of the table on the built slide, after the prelude: the
\* header, the separator, then the data rows.
TableLines == SubSeq(LinesOf(SubSeq(Ops(1), 4, Len(Ops(1)))), 1, 2 + Len(TheTable.rows))

CellChars(cell) == Concat([i \in 1..Len(cell.chunks) |-> cell.chunks[i].text])

\* The widest cell of a column, header included.
ColumnWidth(table, column) ==
    LET cells == {table.header[column]} \cup {table.rows[r][column] : r \in 1..Len(table.rows)}
    IN  CHOOSE w \in {width(CellChars(cell)) : cell \in cells} :
            \A cell \in cells : width(CellChars(cell)) <= w

ColumnWidths(table) == [column \in 1..Len(table.header) |-> ColumnWidth(table, column)]

\* The display column at which the cell of a column starts.
CellStart(widths, column) == SumSeq([i \in 1..(column - 1) |-> widths[i] + 3])

\* The line holds the cells of the row, each at the start of its column
\* and followed by spaces up to the width of the column.
RowAligned(line, row, widths) ==
    /\ width(line) = SumSeq(widths) + 3 * (Len(widths) - 1)
    /\ \A column \in 1..Len(row) :
          \E k \in 0..Len(line) :
              /\ width(SubSeq(line, 1, k)) = CellStart(widths, column)
              /\ LET cell == CellChars(row[column])
                     padded == cell \o Repeat(<<" ">>, widths[column] - width(cell))
                 IN  SubSeq(line, k + 1, k + Len(padded)) = padded

\* C11: each column of a table is as wide as its widest cell, header
\* included; the header line and every data line are sum(widths) +
\* 3 * (columns - 1) columns wide, and every cell, the last one included, is
\* padded with spaces to the width of its column, so that the cells of a
\* column start at the same display column in every line.
C11_TableRowsAligned ==
    Built =>
        LET widths == ColumnWidths(TheTable)
        IN  /\ RowAligned(TableLines[1], TheTable.header, widths)
            /\ \A r \in 1..Len(TheTable.rows) :
                  RowAligned(TableLines[2 + r], TheTable.rows[r], widths)

\* The table of the example with a double-width cell: header [a, U82F9]
\* and row [a, a] give the widths [1, 2] and the padded row line.
C11_Witness ==
    /\ Built
    /\ TheTable.header = <<TextFrom(<<"a">>), TextFrom(<<"U82F9">>)>>
    /\ TheTable.rows = <<<<TextFrom(<<"a">>), TextFrom(<<"a">>)>>>>
    /\ TableLines[1] = <<"a", " ", "U2502", " ", "U82F9">>
    /\ TableLines[3] = <<"a", " ", "U2502", " ", "a", " ">>

\* The display columns at which a glyph stands in a line.
GlyphColumns(line, glyph) ==
    {width(SubSeq(line, 1, k - 1)) : k \in {i \in 1..Len(line) : line[i] = glyph}}

\* What the separator line is made of: per column the dashes, after the
\* first column behind a cross.
SeparatorChars(widths) ==
    Concat([index \in 1..Len(widths) |->
              IF index = 1 THEN Repeat(<<"U2500">>, widths[1] + 1)
              ELSE <<"U253C">> \o Repeat(<<"U2500">>, widths[index] + 2)])

\* C12: the separator line of a table is width + 1 dashes for the first
\* column and a cross followed by width + 2 dashes for each later column,
\* and its crosses stand in the display columns of the vertical bars of the
\* header line and of every data line.
C12_SeparatorAligned ==
    Built =>
        LET widths == ColumnWidths(TheTable)
        IN  /\ TableLines[2] = SeparatorChars(widths)
            /\ Cardinality(GlyphColumns(TableLines[2], "U253C")) = Len(widths) - 1
            /\ \A i \in {1} \cup {2 + r : r \in 1..Len(TheTable.rows)} :
                  GlyphColumns(TableLines[i], "U2502") = GlyphColumns(TableLines[2], "U253C")

\* Header [U82F9, a] and row [a, a]: the cross and the bars in column 3.
C12_Witness ==
    /\ Built
    /\ TheTable.header = <<TextFrom(<<"U82F9">>), TextFrom(<<"a">>)>>
    /\ Len(TheTable.rows) = 1
    /\ TableLines[2] = <<"U2500", "U2500", "U2500", "U253C", "U2500", "U2500", "U2500">>
    /\ GlyphColumns(TableLines[1], "U2502") = {3}
    /\ GlyphColumns(TableLines[3], "U2502") = {3}

---------------------------------------------------------------------------
(* C13: comments that are no directive *)

IsUnknownComment(element) ==
    element.kind = "Comment" /\ parse_comment(element.comment) = None

\* The elements without the one at position i.
Without(els, i) == SubSeq(els, 1, i - 1) \o SubSeq(els, i + 1, Len(els))

\* C13: a comment that is neither pause nor end_slide is ignored: build
\* returns what it returns for the same elements without that comment, the
\* same slides when it succeeds and an error only when it fails without the
\* comment too.
C13_UnknownCommentIgnored ==
    pc = "done" =>
        \A i \in 1..Len(elements) :
            IsUnknownComment(elements[i]) => result = build(default_theme, Without(elements, i))

---------------------------------------------------------------------------
(* C14: the end of the input *)

\* The input leaves nothing in progress: it is empty or its last element
\* closes a slide.
NothingInProgress(els) == els = <<>> \/ IsEndSlide(els[Len(els)])

\* C14: when the input is empty or ends with a thematic break or end_slide,
\* the end of the input adds no slide: there are as many slides as the intro
\* slide and the slide terminators account for, and none after them that
\* holds the prelude and the footer only.
C14_NoTrailingSlide ==
    (Built /\ NothingInProgress(elements)) =>
        Len(BuiltSlides) = (IF HasIntro(elements) THEN 1 ELSE 0) + Cardinality(Terminators(elements))

---------------------------------------------------------------------------
(* C15: slides that were pushed *)

\* The calls of terminate_slide in the step build takes next: one for the
\* intro slide, one for a pause, a thematic break or end_slide, one at the
\* end of the input.
TerminateCalls ==
    IF pc = "start" THEN (IF HasIntro(elements) /\ result'.kind # "Err" THEN 1 ELSE 0)
    ELSE IF pc = "loop" /\ idx < Len(elements)
    THEN (IF IsPause(elements[idx + 1]) \/ IsEndSlide(elements[idx + 1]) THEN 1 ELSE 0)
    ELSE IF pc = "loop" THEN 1
    ELSE 0

\* C15: every step of build leaves the slides that were pushed as they are
\* and where they are, and appends one slide for each call of
\* terminate_slide it makes, a pause included.
C15_SlidesOnlyAppended ==
    [][/\ IsPrefix(slides, slides')
       /\ Len(slides') = Len(slides) + TerminateCalls]_vars

\* A pause has closed a slide behind two slides pushed before it.
C15_Witness ==
    /\ pc = "loop"
    /\ idx = 3
    /\ IsPause(elements[idx])
    /\ Len(slides) = 3
    /\ slides[1] # slides[2]

---------------------------------------------------------------------------
(* C16: the footer and the prelude around terminate_slide *)

\* What push_slide_prelude emits under the theme in force.
Prelude == <<SetColors(theme.default_style_colors), ClearScreen, RenderLineBreak>>

\* The step before this state closed a slide other than by a pause: the
\* intro slide, a thematic break or end_slide, or the end of the input.
JustTerminated ==
    \/ pc = "loop" /\ idx = 0 /\ HasIntro(elements)
    \/ pc = "loop" /\ idx > 0 /\ IsEndSlide(elements[idx])
    \/ pc = "end"
    \/ Built

\* The step before this state was a pause.
JustPaused == pc = "loop" /\ idx > 0 /\ IsPause(elements[idx])

\* C16: every slide that was pushed holds one footer operation, its last
\* one; the operations in progress never hold a footer; right after a slide
\* was closed they are the prelude, SetColors of the default colors,
\* ClearScreen and a line break, unless a pause closed it, which puts back
\* the operations it saved, those of the slide it closed without the footer.
C16_OneFooterThenPrelude ==
    /\ \A i \in 1..Len(slides) :
          LET ops == slides[i].render_operations
          IN  /\ Count(ops, "RenderDynamic") = 1
              /\ ops[Len(ops)].op = "RenderDynamic"
    /\ Count(slide_operations, "RenderDynamic") = 0
    /\ JustTerminated => slide_operations = Prelude
    /\ JustPaused => slide_operations = Content(slides[Len(slides)].render_operations)

\* A heading, a pause and end_slide: the pause put the heading back, the
\* end_slide left the prelude.
C16_Witness ==
    /\ pc = "loop"
    /\ idx = 3
    /\ elements[1].kind = "Heading"
    /\ IsPause(elements[2])
    /\ elements[3] = Comment("end_slide")
    /\ Len(slides) = 2
    /\ slide_operations = Prelude
    /\ Len(slides[1].render_operations) > 4

---------------------------------------------------------------------------
(* C17: the line break after an element *)

\* The operations in progress once process_element has returned for the
\* element the loop is at.
OwnOperations ==
    process_element([Self EXCEPT !.ignore_element_line_break = FALSE],
                    elements[idx + 1]).slide_operations

\* The loop processes an element and goes on.
ElementStep == pc = "loop" /\ idx < Len(elements) /\ pc' = "loop" /\ idx' = idx + 1

SuppressesAsStated(element) == element.kind \in {"FrontMatter", "SetexHeading"}

\* C17 as stated: one line break follows the operations of every element
\* but a front matter and a slide title, which get none.
C17_LineBreakUnlessFrontMatterOrTitle ==
    [][ElementStep =>
         slide_operations' = (IF SuppressesAsStated(elements[idx + 1])
                              THEN OwnOperations
                              ELSE Append(OwnOperations, RenderLineBreak))]_vars

Suppresses(element) ==
    SuppressesAsStated(element) \/ IsEndSlide(element) \/ IsPause(element)

\* C17 (amended): one line break follows the operations of every element
\* but a front matter, a slide title, and the elements that close a slide,
\* a thematic break, end_slide and pause, which get none.
C17_LineBreakUnlessSuppressed ==
    [][ElementStep =>
         slide_operations' = (IF Suppresses(elements[idx + 1])
                              THEN OwnOperations
                              ELSE Append(OwnOperations, RenderLineBreak))]_vars

\* A thematic break left the prelude alone; the heading after it is
\* followed by its own line break and the one of the loop.
C17_Witness ==
    /\ pc = "loop"
    /\ idx = 2
    /\ elements[1].kind = "ThematicBreak"
    /\ elements[2].kind = "Heading"
    /\ Len(slide_operations) = 6
    /\ slide_operations[4].op = "RenderTextLine"
    /\ slide_operations[5] = RenderLineBreak
    /\ slide_operations[6] = RenderLineBreak

---------------------------------------------------------------------------
(* C18: the intro slide *)

\* What the leading front matter sets, once it parsed.
IntroMetadata == parse_metadata(elements[1].contents)

OpNames(ops) == [i \in 1..Len(ops) |-> ops[i].op]

IsTextLine(operation) == operation.op = "RenderTextLine"

\* The characters of the text lines of a sequence of operations.
TextLines(ops) ==
    LET text_lines == SelectSeq(ops, IsTextLine)
    IN  [i \in 1..Len(text_lines) |-> LineChars(text_lines[i])]

\* The operations of the intro slide by name, as the claim lists them.
IntroOpNames ==
    <<"SetColors", "ClearScreen", "RenderLineBreak", "JumpToVerticalCenter",
      "RenderTextLine", "RenderLineBreak">>
    \o (IF is_some(IntroMetadata.sub_title) THEN <<"RenderTextLine", "RenderLineBreak">> ELSE <<>>)
    \o (IF is_some(IntroMetadata.author)
        THEN (IF theme.intro_author_positioning = "BelowTitle"
              THEN <<"RenderLineBreak", "RenderLineBreak", "RenderLineBreak">>
              ELSE <<"JumpToSlideBottom">>) \o <<"RenderTextLine">>
        ELSE <<>>)
    \o <<"RenderDynamic">>

\* The title, then the subtitle and the author if they are set.
IntroTexts ==
    <<unwrap_or(IntroMetadata.title, <<>>)>> \o IntroMetadata.sub_title \o IntroMetadata.author

\* The leading front matter was processed without error.
FrontMatterDone == pc = "loop" \/ pc = "end" \/ Built

\* C18: when the leading front matter sets title, subtitle or author, the
\* first slide is the intro slide, closed before the loop over the elements
\* starts: the prelude, JumpToVerticalCenter, the title and a line break,
\* the subtitle and a line break if set, three line breaks (BelowTitle) or
\* JumpToSlideBottom (PageBottom) and the author if set, then the footer.
\* Otherwise no slide is pushed before the loop and no slide is centered.
C18_IntroSlide ==
    FrontMatterDone =>
        IF HasIntro(elements)
        THEN /\ Len(slides) >= 1
             /\ OpNames(slides[1].render_operations) = IntroOpNames
             /\ TextLines(slides[1].render_operations) = IntroTexts
             /\ (pc = "loop" /\ idx = 0) => (Len(slides) = 1 /\ slide_operations = Prelude)
        ELSE /\ (pc = "loop" /\ idx = 0) => slides = <<>>
             /\ \A i \in 1..Len(slides) :
                   Count(slides[i].render_operations, "JumpToVerticalCenter") = 0

\* Title, subtitle and author under the light theme, which puts the author
\* at the bottom of the page: the intro slide is closed before the loop.
C18_Witness ==
    /\ pc = "loop"
    /\ idx = 0
    /\ elements # <<>>
    /\ elements[1] = FrontMatterFull
    /\ Len(slides) = 1
    /\ Len(slides[1].render_operations) = 11
    /\ slides[1].render_operations[9] = JumpToSlideBottom

---------------------------------------------------------------------------
(* C19: a front matter that is not the first element *)

\* The loop is at a front matter.
AtFrontMatter == pc = "loop" /\ idx < Len(elements) /\ elements[idx + 1].kind = "FrontMatter"

\* C19: the loop passes over a front matter, wherever it stands, without
\* an error and without a change to the operations in progress, the slides,
\* the theme or the footer context; the theme and the author of the footer
\* context change only in the first step of build, which parses the front
\* matter that leads the input before any element is processed.
C19_LaterFrontMatterIgnored ==
    [][/\ AtFrontMatter =>
            /\ pc' = "loop"
            /\ slide_operations' = slide_operations
            /\ slides' = slides
            /\ theme' = theme
            /\ contexts' = contexts
       /\ (theme' # theme \/ contexts'[footer_context].author # contexts[footer_context].author) =>
            (pc = "start" /\ elements # <<>> /\ elements[1].kind = "FrontMatter")]_vars

\* The loop has passed a front matter in second position that would not
\* parse as configuration: a theme name together with a theme path.
C19_Witness ==
    /\ pc = "loop"
    /\ idx = 2
    /\ elements[1].kind = "Heading"
    /\ elements[2] = FrontMatterConflict
    /\ slides = <<>>
    /\ Len(slide_operations) = 6
    /\ theme = default_theme

---------------------------------------------------------------------------
(* C20: the lengths of the lines of one block *)

\* The preformatted lines of the block quote that leads the input: they
\* follow the prelude and the SetColors of the quote.
QuoteLines == [i \in 1..Len(elements[1].lines) |-> Ops(1)[3 + 2 * i]]

\* The preformatted lines of the code block that follows the block quote.
CodeLines == SubSeq(Preformatted, Len(QuoteLines) + 1, Len(Preformatted))

\* The widest line of the quote with the prefix of the theme.
QuoteBlockLength ==
    LET prefix_width == width(unwrap_or(theme.block_quote_prefix, <<>>))
        lengths == {width(elements[1].lines[i]) + prefix_width : i \in 1..Len(elements[1].lines)}
    IN  CHOOSE m \in lengths : \A l \in lengths : l <= m

\* C20: for every preformatted line of a block quote or a code block,
\* unformatted_length <= block_length; the lines of the block quote all
\* carry as block_length the greatest line width plus the width of the
\* prefix, and the lines of the code block all carry the same block_length.
C20_BlockLengthShared ==
    Built =>
        /\ \A i \in 1..Len(Preformatted) :
              Preformatted[i].unformatted_length <= Preformatted[i].block_length
        /\ \A i \in 1..Len(QuoteLines) :
              /\ QuoteLines[i].op = "RenderPreformattedLine"
              /\ QuoteLines[i].block_length = QuoteBlockLength
        /\ \A i, j \in 1..Len(CodeLines) : CodeLines[i].block_length = CodeLines[j].block_length

\* Lines of different widths under the light theme, whose quote prefix is
\* two columns wide and which pads code: the short line is shorter than
\* the block, and the code has its two lines and the two lines of padding.
C20_Witness ==
    /\ Built
    /\ elements[1].lines = <<<<"a">>, <<"U82F9", "a">>>>
    /\ width(unwrap_or(theme.block_quote_prefix, <<>>)) = 2
    /\ QuoteLines[1].unformatted_length = 3
    /\ QuoteLines[1].block_length = 5
    /\ QuoteLines[2].unformatted_length = 5
    /\ Len(CodeLines) = 4
    /\ CodeLines[2].unformatted_length < CodeLines[2].block_length

---------------------------------------------------------------------------
(* C21: the length of the progress bar *)

\* A footer was resolved in a window.
Resolved == Built /\ session = "ended" /\ slide_dimensions # None

\* The glyphs of the bar the footer of slide i draws in the window.
BarLength(i) ==
    Len(as_render_operations(Footer(i).generator, slide_dimensions[1], contexts)[2].texts[1].text)

BarGlyph(i) == <<unwrap_or(Footer(i).generator.style.character, "U2588")>>

BarColumns(i) == slide_dimensions[1].columns \div width(BarGlyph(i))

BarContext(i) == contexts[Footer(i).generator.context]

\* The slide numbers are within the presentation, and the bar fits the
\* window, grows with the slides and is full on the last one.
BarWithinWindow ==
    Resolved =>
        \A i \in 1..Len(BuiltSlides) :
            /\ width(BarGlyph(i)) >= 1
            /\ BarContext(i).total_slides >= 1
            /\ Footer(i).generator.current_slide + 1 \in 1..BarContext(i).total_slides
            /\ BarLength(i) <= BarColumns(i)
            /\ i < Len(BuiltSlides) => BarLength(i) <= BarLength(i + 1)
            /\ i = Len(BuiltSlides) => BarLength(i) = BarColumns(i)

\* The bar is as long as the quotient says, rounded up.
BarIsCeiling ==
    Resolved =>
        \A i \in 1..Len(BuiltSlides) :
            BarLength(i) = ceil_div(BarColumns(i) * (Footer(i).generator.current_slide + 1),
                                    BarContext(i).total_slides)

\* C21: on every slide of a built presentation whose footer is a progress
\* bar of a glyph at least one column wide, total_slides >= 1 and
\* 1 <= current_slide + 1 <= total_slides, and the bar has
\* ceil(total_columns * (current_slide + 1) / total_slides) glyphs, with
\* total_columns = columns / glyph width: never more than total_columns,
\* never fewer than on the slide before, and total_columns on the last
\* slide.
C21_ProgressBarLength == BarWithinWindow /\ BarIsCeiling

---------------------------------------------------------------------------
(* C22: the rows render_slide leaves to the slide *)

\* C22: whatever window the terminal reports to render_slide, the slide
\* gets the window's rows minus the 3 reserved ones, a number of rows that
\* is not negative and did not wrap around, and the window's columns,
\* width and height; render_slide does not panic on the subtraction.
C22_SlideRowsReduced ==
    (Built /\ window_dimensions # None) =>
        /\ session # "panicked"
        /\ slide_dimensions # None
        /\ slide_dimensions[1].rows = window_dimensions[1].rows - 3
        /\ slide_dimensions[1].rows \in 0..(U16 - 1)
        /\ slide_dimensions[1].columns = window_dimensions[1].columns
        /\ slide_dimensions[1].width = window_dimensions[1].width
        /\ slide_dimensions[1].height = window_dimensions[1].height

\* What holds of every window of at least 3 rows.
C22_TallWindows ==
    (Built /\ window_dimensions # None /\ window_dimensions[1].rows >= 3) =>
        /\ session # "panicked"
        /\ slide_dimensions = Some([window_dimensions[1] EXCEPT !.rows = @ - 3])

---------------------------------------------------------------------------
(* C23: the two footers of render_slide *)

\* The frame shows what the footer operation of the slide resolved to: only
\* a FooterGenerator jumps to the bottom of the window.
DynamicFooterDrawn ==
    \E i \in 1..Len(frame) : "op" \in DOMAIN frame[i] /\ frame[i].op = "JumpToWindowBottom"

\* The frame shows what theme.footer.render returned, printed at the last
\* row of the window.
DirectFooterDrawn ==
    \E i \in 1..(Len(frame) - 1) :
        /\ "cmd" \in DOMAIN frame[i] /\ frame[i].cmd = "MoveTo"
        /\ "cmd" \in DOMAIN frame[i + 1] /\ frame[i + 1].cmd = "Print"

\* C23: no frame render_slide draws holds a footer from both mechanisms,
\* the RenderDynamic operation of the slide and the theme.footer.render
\* step of render_slide.
C23_OneFooterMechanism == ~(DynamicFooterDrawn /\ DirectFooterDrawn)

====
